---------------------------- MODULE Spec2Model ----------------------------
(***************************************************************************)
(* Model of the notarial-office record system (Django + PostgreSQL):       *)
(* the Cliente / Tabelionato / Protocolo tables of core/models.py, the     *)
(* forms of core/forms.py and the request handlers of core/views.py.       *)
(*                                                                         *)
(* Text values are sequences of one-character strings, so that strip()     *)
(* and the digit filter of the document normaliser are computed and not    *)
(* assumed.  Python's None is the value Null.  A handler is one action:    *)
(* it threads the database through every statement of the view and, as    *)
(* the views are wrapped in transaction.atomic, commits the result only    *)
(* when no statement raised.                                               *)
(***************************************************************************)
EXTENDS Integers, Sequences, FiniteSets, TLC

VARIABLES
    users,        \* User table: pk -> [role, is_active, is_superuser]
    tipos_ato,    \* TipoAto table: pk -> [nome, ativo]
    tabelionatos, \* Tabelionato table: pk -> record
    clientes,     \* Cliente table: pk -> record
    protocolos,   \* Protocolo table: pk -> record (with its m2m sets)
    pedidos,      \* settings_view requests in flight: slot -> what they read
    resp          \* what the last request did (response + call trace)

vars == <<users, tipos_ato, tabelionatos, clientes, protocolos, pedidos, resp>>

-----------------------------------------------------------------------------
(* Bounds of the exploration *)

MaxLinhas == 2      \* person rows submitted per role in one request
MaxClientes == 2    \* Cliente rows the explored database may hold
MaxPedidos == 2     \* settings_view requests in flight at the same time
MaxUsuarios == 2    \* User rows the explored database may hold
MaxDigitos == 15    \* digits in a value given to the text functions

-----------------------------------------------------------------------------
(* Text *)

Null == <<"NULL">>

\* Python truthiness of an optional string: None and '' are falsy.
Truthy(x) == x # Null /\ x # <<>>

Digits == {"0", "1", "2", "3", "4", "5", "6", "7", "8", "9"}

Whitespace == {" "}

IsDigit(c) == c \in Digits

SetMin(S) == CHOOSE x \in S : \A y \in S : x <= y

SetMax(S) == CHOOSE x \in S : \A y \in S : x >= y

\* The part of s between the first and the last index of keep.
Between(s, keep) ==
    IF keep = {} THEN <<>> ELSE SubSeq(s, SetMin(keep), SetMax(keep))

\* str.strip()
strip(s) == Between(s, {i \in 1..Len(s) : s[i] \notin Whitespace})

\* s[:n]
Prefix(s, n) == SubSeq(s, 1, IF Len(s) < n THEN Len(s) ELSE n)

\* lst[i] if i < len(lst) else ''   (i is 1-based here)
ItemOrEmpty(lst, i) == IF i <= Len(lst) THEN lst[i] ELSE <<>>

Range(s) == {s[i] : i \in 1..Len(s)}

\* x or ''
OrEmpty(x) == IF Truthy(x) THEN x ELSE <<>>

-----------------------------------------------------------------------------
(* Document normaliser: views._limpar_documento *)

_limpar_documento_keeps_separators(valor) ==
    IF Truthy(valor) THEN SelectSeq(valor, LAMBDA c : c \notin Whitespace) ELSE Null

_limpar_documento(valor) ==
    IF Truthy(valor) THEN SelectSeq(valor, IsDigit) ELSE Null

-----------------------------------------------------------------------------
(* Cliente model *)

FISICA == "FISICA"

JURIDICA == "JURIDICA"

TipoPessoa == {FISICA, JURIDICA}

CPF_MAX_LENGTH == 14

CNPJ_MAX_LENGTH == 18

TELEFONE_MAX_LENGTH == 20

NOME_MAX_LENGTH == 255

CPF_DIGITS == 11

CNPJ_DIGITS == 14

\* EmailField validation, reduced to: one "@" with text on both sides.
IsEmail(s) ==
    \E i \in 2..(Len(s) - 1) :
        /\ s[i] = "@"
        /\ \A j \in 1..Len(s) : s[j] = "@" => j = i

\* Model.clean_fields for Cliente: blank=True fields skip empty values.
clean_fields(c) ==
    /\ Truthy(c.nome) /\ Len(c.nome) <= NOME_MAX_LENGTH
    /\ c.tipo_pessoa \in TipoPessoa
    /\ Truthy(c.cpf) => Len(c.cpf) <= CPF_MAX_LENGTH
    /\ Truthy(c.cnpj) => Len(c.cnpj) <= CNPJ_MAX_LENGTH
    /\ Truthy(c.telefone) => Len(c.telefone) <= TELEFONE_MAX_LENGTH
    /\ Truthy(c.email) => IsEmail(c.email)

Cliente_clean_unchecked(c) == TRUE

\* Cliente.clean: TRUE when no ValidationError is raised.
Cliente_clean(c) ==
    /\ c.tipo_pessoa = FISICA => (Truthy(c.cpf) /\ ~Truthy(c.cnpj))
    /\ c.tipo_pessoa = JURIDICA => (Truthy(c.cnpj) /\ ~Truthy(c.cpf))

\* Model.validate_unique for the unique cpf and cnpj columns; NULL is not
\* compared, and the row being saved (pk) is excluded.
validate_unique(db, pk, c) ==
    /\ c.cpf # Null => \A k \in DOMAIN db : k # pk => db[k].cpf # c.cpf
    /\ c.cnpj # Null => \A k \in DOMAIN db : k # pk => db[k].cnpj # c.cnpj

full_clean(db, pk, c) ==
    /\ clean_fields(c)
    /\ Cliente_clean(c)
    /\ validate_unique(db, pk, c)

NextPk(tbl) == SetMin({k \in 1..(Cardinality(DOMAIN tbl) + 1) : k \notin DOMAIN tbl})

\* The table with row k written.
Stored(db, k, c) ==
    [db |-> [x \in DOMAIN db \cup {k} |-> IF x = k THEN c ELSE db[x]],
     pk |-> k, exc |-> ""]

\* Cliente.save: full_clean, then INSERT (pk = 0) or UPDATE.
\* Returns the table, the pk and the exception raised ("" when none).
Cliente_save(db, pk, c) ==
    IF ~full_clean(db, pk, c)
    THEN [db |-> db, pk |-> pk, exc |-> "ValidationError"]
    ELSE Stored(db, IF pk = 0 THEN NextPk(db) ELSE pk, c)

\* A new, unsaved Cliente() with the field defaults of the model.
NovoCliente ==
    [nome |-> <<>>, tipo_pessoa |-> FISICA, cpf |-> Null, cnpj |-> Null,
     telefone |-> Null, email |-> Null, endereco |-> Null]

Carries(c, doc) == c.cpf = doc \/ c.cnpj = doc

-----------------------------------------------------------------------------
(* QuerySet.update_or_create(<campo>=doc, defaults=dados) on Cliente.       *)
(* dados is the defaults dict: a function from field names to values.       *)

SetFields(c, dados) ==
    [f \in DOMAIN c |-> IF f \in DOMAIN dados THEN dados[f] ELSE c[f]]

Lookup_never_finds(db, campo, doc) == {}

\* Cliente.objects.filter(<campo>=doc): the pks of the matching rows.
Lookup(db, campo, doc) == {k \in DOMAIN db : db[k][campo] = doc}

\* The (object, created) pair of a save.
Saved(r, created) ==
    [db |-> r.db, pk |-> r.pk, exc |-> r.exc, created |-> created]

update_or_create_always_creates(db, campo, doc, dados) ==
    Saved(Stored(db, NextPk(db), SetFields([NovoCliente EXCEPT ![campo] = doc], dados)),
          TRUE)

update_or_create(db, campo, doc, dados) ==
    IF Lookup(db, campo, doc) = {}
    THEN Saved(Cliente_save(db, 0,
                   SetFields([NovoCliente EXCEPT ![campo] = doc], dados)), TRUE)
    ELSE Saved(Cliente_save(db, CHOOSE k \in Lookup(db, campo, doc) : TRUE,
                   SetFields(db[CHOOSE k \in Lookup(db, campo, doc) : TRUE], dados)),
               FALSE)

\* Cliente.objects.create(**dados)
Cliente_create(db, dados) ==
    Saved(Cliente_save(db, 0, SetFields(NovoCliente, dados)), TRUE)

-----------------------------------------------------------------------------
(* Person reconciler: views._processar_pessoas_do_post                      *)
(* lists is the POST data of one role: the parallel lists documentos,       *)
(* nomes, telefones, emails, enderecos.                                     *)

\* The defaults dict: optional fields only when submitted non-blank.
dados_cliente_overwrites_blank(nome, tipo_pessoa, telefone, email, endereco) ==
    [f \in {"nome", "tipo_pessoa", "telefone", "email", "endereco"} |->
        CASE f = "nome" -> nome
          [] f = "tipo_pessoa" -> tipo_pessoa
          [] f = "telefone" -> telefone
          [] f = "email" -> email
          [] f = "endereco" -> endereco]

dados_cliente(nome, tipo_pessoa, telefone, email, endereco) ==
    [f \in {"nome", "tipo_pessoa"}
           \cup (IF Truthy(telefone) THEN {"telefone"} ELSE {})
           \cup (IF Truthy(email) THEN {"email"} ELSE {})
           \cup (IF Truthy(endereco) THEN {"endereco"} ELSE {}) |->
        CASE f = "nome" -> nome
          [] f = "tipo_pessoa" -> tipo_pessoa
          [] f = "telefone" -> telefone
          [] f = "email" -> email
          [] f = "endereco" -> endereco]

classificar_truncates(doc_limpo, apenas_cpf) ==
    IF Len(doc_limpo) = CNPJ_DIGITS /\ ~apenas_cpf
    THEN [tipo_pessoa |-> JURIDICA, cpf |-> Null, cnpj |-> doc_limpo]
    ELSE [tipo_pessoa |-> FISICA,
          cpf |-> IF Truthy(doc_limpo) THEN Prefix(doc_limpo, CPF_DIGITS) ELSE Null,
          cnpj |-> Null]

\* Classification of one row: [tipo_pessoa, cpf, cnpj].  Only evaluated when
\* apenas_cpf holds or doc_limpo is a string (len(None) raises before it).
classificar(doc_limpo, apenas_cpf) ==
    IF apenas_cpf \/ Len(doc_limpo) = CPF_DIGITS
    THEN [tipo_pessoa |-> FISICA,
          cpf |-> IF Truthy(doc_limpo) THEN Prefix(doc_limpo, CPF_DIGITS) ELSE Null,
          cnpj |-> Null]
    ELSE IF Len(doc_limpo) = CNPJ_DIGITS
    THEN [tipo_pessoa |-> JURIDICA, cpf |-> Null, cnpj |-> doc_limpo]
    ELSE [tipo_pessoa |-> FISICA,
          cpf |-> IF Truthy(doc_limpo) THEN doc_limpo ELSE Null,
          cnpj |-> Null]

\* Lines 573-586: the upsert of one row classified as cl.
upsert(db, cl, nome, telefone, email, endereco) ==
    IF Truthy(cl.cpf)
    THEN update_or_create(db, "cpf", cl.cpf,
             dados_cliente(nome, cl.tipo_pessoa, telefone, email, endereco))
    ELSE IF Truthy(cl.cnpj)
    THEN update_or_create(db, "cnpj", cl.cnpj,
             dados_cliente(nome, cl.tipo_pessoa, telefone, email, endereco))
    ELSE Cliente_create(db,
             dados_cliente(nome, cl.tipo_pessoa, telefone, email, endereco))

\* What one iteration did: kind is "skip" (continue), "raise" or "ok".
Step(doc_limpo, nome, telefone, email, endereco, kind, exc, pk, created, antes, depois) ==
    [doc_limpo |-> doc_limpo, nome |-> nome, telefone |-> telefone,
     email |-> email, endereco |-> endereco, kind |-> kind, exc |-> exc,
     pk |-> pk, created |-> created, antes |-> antes, depois |-> depois]

\* The outcome r of the upsert as the iteration's result.
Upserted(db, r, doc_limpo, nome, telefone, email, endereco) ==
    IF r.exc # ""
    THEN [db |-> db,
          step |-> Step(doc_limpo, nome, telefone, email, endereco,
                        "raise", r.exc, 0, FALSE, Null, Null)]
    ELSE [db |-> r.db,
          step |-> Step(doc_limpo, nome, telefone, email, endereco,
                        "ok", "", r.pk, r.created,
                        IF r.created THEN Null ELSE db[r.pk], r.db[r.pk])]

\* One iteration over the cleaned values of row i.
processar_valores(db, doc_limpo, nome, telefone, email, endereco, apenas_cpf) ==
    IF ~Truthy(doc_limpo) /\ ~Truthy(nome)
    THEN [db |-> db,
          step |-> Step(doc_limpo, nome, telefone, email, endereco,
                        "skip", "", 0, FALSE, Null, Null)]
    ELSE IF ~apenas_cpf /\ doc_limpo = Null
    THEN [db |-> db,
          step |-> Step(doc_limpo, nome, telefone, email, endereco,
                        "raise", "TypeError", 0, FALSE, Null, Null)]
    ELSE IF ~Truthy(nome)
    THEN [db |-> db,
          step |-> Step(doc_limpo, nome, telefone, email, endereco,
                        "skip", "", 0, FALSE, Null, Null)]
    ELSE Upserted(db,
                  upsert(db, classificar(doc_limpo, apenas_cpf),
                         nome, telefone, email, endereco),
                  doc_limpo, nome, telefone, email, endereco)

\* One iteration of the loop over documentos (row i).
processar_linha(db, lists, i, apenas_cpf) ==
    processar_valores(db,
                      _limpar_documento(lists.documentos[i]),
                      strip(ItemOrEmpty(lists.nomes, i)),
                      strip(ItemOrEmpty(lists.telefones, i)),
                      strip(ItemOrEmpty(lists.emails, i)),
                      strip(ItemOrEmpty(lists.enderecos, i)),
                      apenas_cpf)

\* The loop's state after an iteration with result r.
Acumular(acc, r) ==
    [db |-> r.db,
     pessoas |-> IF r.step.kind = "ok" THEN Append(acc.pessoas, r.step.pk)
                 ELSE acc.pessoas,
     trace |-> Append(acc.trace, r.step),
     exc |-> r.step.exc]

\* The loop from row i on; an exception ends it.
RECURSIVE processar_de(_, _, _, _)
processar_de(acc, lists, i, apenas_cpf) ==
    IF i > Len(lists.documentos) \/ acc.exc # ""
    THEN acc
    ELSE processar_de(Acumular(acc, processar_linha(acc.db, lists, i, apenas_cpf)),
                      lists, i + 1, apenas_cpf)

\* Returns the table, the list pessoas (pks, in row order), the steps taken
\* and the exception that ended the loop ("" when it returned).
_processar_pessoas_do_post(db, lists, apenas_cpf) ==
    processar_de([db |-> db, pessoas |-> <<>>, trace |-> <<>>, exc |-> ""],
                 lists, 1, apenas_cpf)

-----------------------------------------------------------------------------
(* ClienteForm (forms.py) and the cliente_create / cliente_update views     *)

\* ClienteForm._limpar_documento
ClienteForm_limpar_documento(valor) ==
    IF Truthy(valor) THEN SelectSeq(valor, IsDigit) ELSE valor

\* A form CharField of a nullable column: strip, '' becomes None.
CampoOpcional(v) == IF strip(v) = <<>> THEN Null ELSE strip(v)

\* clean_cpf / clean_cnpj on the field's cleaned value.
clean_documento(v) ==
    IF Truthy(v) THEN ClienteForm_limpar_documento(v) ELSE Null

\* The form's field validation: required, max_length, choices, e-mail.
campos_validos(post) ==
    /\ Truthy(strip(post.nome)) /\ Len(strip(post.nome)) <= NOME_MAX_LENGTH
    /\ post.tipo_pessoa \in TipoPessoa
    /\ Len(strip(post.cpf)) <= CPF_MAX_LENGTH
    /\ Len(strip(post.cnpj)) <= CNPJ_MAX_LENGTH
    /\ Len(strip(post.telefone)) <= TELEFONE_MAX_LENGTH
    /\ Truthy(strip(post.email)) => IsEmail(strip(post.email))

\* ClienteForm.clean on the cleaned cpf and cnpj: [ok, c], whether no error
\* was added and the cleaned_data it returns.
ClienteForm_clean_docs(post, cpf, cnpj) ==
    [ok |-> /\ campos_validos(post)
            /\ ~(post.tipo_pessoa = FISICA /\ ~Truthy(cpf))
            /\ ~(post.tipo_pessoa = JURIDICA /\ ~Truthy(cnpj)),
     c |-> [nome |-> strip(post.nome),
            tipo_pessoa |-> post.tipo_pessoa,
            cpf |-> IF post.tipo_pessoa = JURIDICA THEN Null ELSE cpf,
            cnpj |-> IF post.tipo_pessoa = FISICA THEN Null ELSE cnpj,
            telefone |-> CampoOpcional(post.telefone),
            email |-> CampoOpcional(post.email),
            endereco |-> strip(post.endereco)]]

\* Field cleaning, clean_cpf / clean_cnpj and ClienteForm.clean.
\* post: [nome, tipo_pessoa, cpf, cnpj, telefone, email, endereco], raw.
ClienteForm_clean(post) ==
    ClienteForm_clean_docs(post,
                           clean_documento(CampoOpcional(post.cpf)),
                           clean_documento(CampoOpcional(post.cnpj)))

\* form.is_valid(): the form's own cleaning, then the instance's full_clean
\* (ModelForm._post_clean) against the stored rows.
ClienteForm_is_valid(db, pk, post) ==
    /\ ClienteForm_clean(post).ok
    /\ full_clean(db, pk, ClienteForm_clean(post).c)

-----------------------------------------------------------------------------
(* Responses.  resp records the last request: the view, its outcome, the    *)
(* reconciler calls it made (each with its per-row steps) and, for the      *)
(* direct reconciler calls, whether it repeats the previous call.           *)

Anonymous == 0

atomic_without_rollback(antes, depois, exc) == depois

\* transaction.atomic around a view: the writes are kept only when the view
\* raised nothing.
atomic(antes, depois, exc) == IF exc = "" THEN depois ELSE antes

Authenticated(u) == u \in DOMAIN users /\ users[u].is_active

Resp(op, outcome, exc, pk, calls) ==
    [op |-> op, outcome |-> outcome, exc |-> exc, pk |-> pk, calls |-> calls,
     repetida |-> FALSE, post |-> Null, antes |-> Null,
     user |-> Anonymous, method |-> "", deleted |-> FALSE,
     documento |-> <<>>, json |-> Null, value |-> <<>>, retorno |-> <<>>]

Call(prefixo, lists, apenas_cpf, r) ==
    [prefixo |-> prefixo, lists |-> lists, apenas_cpf |-> apenas_cpf,
     pessoas |-> r.pessoas, trace |-> r.trace, exc |-> r.exc]

-----------------------------------------------------------------------------
(* Submitted values explored *)

DOC_CPF == <<"1","1","1",".","2","2","2",".","3","3","3","-","4","4">>

DOC_CNPJ == <<"1","1",".","1","2","2",".","2","3","3","/","3","4","4","0","-","0","1">>

DOC_CNPJ_SO_DIGITOS == <<"1","1","1","2","2","2","3","3","3","4","4","0","0","1">>

DOC_CURTO == <<"1","2","3">>

DOC_LONGO == <<"1","1","1","2","2","2","3","3","3","4","4","0","0","1","9">>

DOC_SEM_DIGITOS == <<"s","/","n">>

ANA == <<"A","n","a">>

BIA == <<" ","B","i","a"," ">>

TEL == <<"9","9">>

EMAIL == <<"a","@","b">>

EMAIL_RUIM == <<"a","b">>

ENDERECO == <<"R","u","a">>

Linha(doc, nome, telefone, email, endereco) ==
    [documento |-> doc, nome |-> nome, telefone |-> telefone,
     email |-> email, endereco |-> endereco]

\* Person rows a request may carry.
L_CPF_ANA == Linha(DOC_CPF, ANA, <<>>, <<>>, <<>>)

L_CPF_BIA == Linha(DOC_CPF, BIA, TEL, EMAIL, ENDERECO)

L_CPF_EMAIL_RUIM == Linha(DOC_CPF, ANA, <<>>, EMAIL_RUIM, <<>>)

L_CPF_SEM_NOME == Linha(DOC_CPF, <<" ">>, TEL, <<>>, <<>>)

L_CNPJ_ANA == Linha(DOC_CNPJ, ANA, <<>>, <<>>, <<>>)

L_CNPJ_BIA == Linha(DOC_CNPJ, BIA, TEL, <<>>, ENDERECO)

L_CURTO == Linha(DOC_CURTO, ANA, <<>>, <<>>, <<>>)

L_LONGO == Linha(DOC_LONGO, ANA, <<>>, <<>>, <<>>)

L_SEM_DIGITOS == Linha(DOC_SEM_DIGITOS, ANA, <<>>, <<>>, <<>>)

L_SEM_DOCUMENTO == Linha(<<>>, ANA, <<>>, <<>>, <<>>)

L_VAZIA == Linha(<<>>, <<>>, <<>>, <<>>, <<>>)

Linhas ==
    { L_CPF_ANA, L_CPF_BIA, L_CPF_EMAIL_RUIM, L_CPF_SEM_NOME, L_CNPJ_ANA,
      L_CNPJ_BIA, L_CURTO, L_LONGO, L_SEM_DIGITOS, L_SEM_DOCUMENTO, L_VAZIA }

SeqsUpTo(S, n) == UNION {[1..k -> S] : k \in 0..n}

\* request.POST.getlist(...) for the five fields of one role.
Lists(rows) ==
    [documentos |-> [i \in 1..Len(rows) |-> rows[i].documento],
     nomes |-> [i \in 1..Len(rows) |-> rows[i].nome],
     telefones |-> [i \in 1..Len(rows) |-> rows[i].telefone],
     emails |-> [i \in 1..Len(rows) |-> rows[i].email],
     enderecos |-> [i \in 1..Len(rows) |-> rows[i].endereco]]

ClientePost(nome, tipo_pessoa, cpf, cnpj, telefone, email, endereco) ==
    [nome |-> nome, tipo_pessoa |-> tipo_pessoa, cpf |-> cpf, cnpj |-> cnpj,
     telefone |-> telefone, email |-> email, endereco |-> endereco]

\* ClienteForm submissions.
ClientePosts ==
    { ClientePost(ANA, FISICA, DOC_CPF, <<>>, <<>>, <<>>, <<>>),
      ClientePost(ANA, FISICA, DOC_CPF, DOC_CNPJ, TEL, EMAIL, ENDERECO),
      ClientePost(ANA, FISICA, <<>>, DOC_CNPJ, <<>>, <<>>, <<>>),
      ClientePost(ANA, FISICA, DOC_SEM_DIGITOS, <<>>, <<>>, <<>>, <<>>),
      ClientePost(ANA, FISICA, DOC_CNPJ_SO_DIGITOS, <<>>, <<>>, <<>>, <<>>),
      ClientePost(BIA, JURIDICA, DOC_CPF, DOC_CNPJ, <<>>, <<>>, <<>>),
      ClientePost(BIA, JURIDICA, DOC_CPF, <<>>, <<>>, <<>>, <<>>),
      ClientePost(BIA, "", DOC_CPF, DOC_CNPJ, <<>>, <<>>, <<>>) }

-----------------------------------------------------------------------------
(* Views *)

MASTER == "MASTER"

ADMINISTRATIVO == "ADMINISTRATIVO"

ESCREVENTE == "ESCREVENTE"

Insert_at(tbl, k, row) ==
    [x \in DOMAIN tbl \cup {k} |-> IF x = k THEN row ELSE tbl[x]]

Insert(tbl, row) ==
    [x \in DOMAIN tbl \cup {NextPk(tbl)} |->
        IF x = NextPk(tbl) THEN row ELSE tbl[x]]

\* SetupMasterForm: post is [username, password, password_confirm].
SetupPosts ==
    { [username |-> "master", password |-> "s3nha", password_confirm |-> "s3nha"],
      [username |-> "master", password |-> "s3nha", password_confirm |-> "outra"] }

SetupMasterForm_is_valid(post) ==
    /\ post.username # ""
    /\ post.password # ""
    /\ post.password = post.password_confirm

\* SetupMasterForm.save
SetupMasterForm_save(post) ==
    [username |-> post.username, role |-> MASTER, is_superuser |-> TRUE,
     is_staff |-> TRUE, is_active |-> TRUE]

setup_system_while_no_master(method, post) ==
    /\ UNCHANGED <<tipos_ato, tabelionatos, pedidos, clientes, protocolos>>
    /\ IF \E k \in DOMAIN users : users[k].role = MASTER
       THEN /\ UNCHANGED users
            /\ resp' = Resp("setup_system", "redirect:login", "", 0, <<>>)
       ELSE IF method = "POST" /\ SetupMasterForm_is_valid(post)
       THEN /\ users' = Insert(users, SetupMasterForm_save(post))
            /\ resp' = Resp("setup_system", "redirect:home", "", NextPk(users), <<>>)
       ELSE /\ UNCHANGED users
            /\ resp' = Resp("setup_system", "render", "", 0, <<>>)

\* views.setup_system
setup_system(method, post) ==
    /\ UNCHANGED <<tipos_ato, tabelionatos, pedidos, clientes, protocolos>>
    /\ IF DOMAIN users # {}
       THEN /\ UNCHANGED users
            /\ resp' = Resp("setup_system", "redirect:login", "", 0, <<>>)
       ELSE IF method = "POST" /\ SetupMasterForm_is_valid(post)
       THEN /\ users' = Insert(users, SetupMasterForm_save(post))
            /\ resp' = Resp("setup_system", "redirect:home", "", NextPk(users), <<>>)
       ELSE /\ UNCHANGED users
            /\ resp' = Resp("setup_system", "render", "", 0, <<>>)

\* form.save() and the redirect that follows it; r is the save's outcome.
ClienteSalvo(op, r) ==
    /\ Cardinality(DOMAIN r.db) <= MaxClientes
    /\ clientes' = r.db
    /\ resp' = Resp(op, IF r.exc = "" THEN "redirect:cliente_list" ELSE "error",
                    r.exc, r.pk, <<>>)

\* views.cliente_create (login_required)
cliente_create(u, method, post) ==
    /\ UNCHANGED <<users, tipos_ato, tabelionatos, pedidos, protocolos>>
    /\ IF ~Authenticated(u)
       THEN /\ UNCHANGED clientes
            /\ resp' = Resp("cliente_create", "redirect:login", "", 0, <<>>)
       ELSE IF method = "POST" /\ ClienteForm_is_valid(clientes, 0, post)
       THEN ClienteSalvo("cliente_create",
                         Cliente_save(clientes, 0, ClienteForm_clean(post).c))
       ELSE /\ UNCHANGED clientes
            /\ resp' = Resp("cliente_create", "render", "", 0, <<>>)

\* views.cliente_update (login_required, get_object_or_404)
cliente_update(u, pk, method, post) ==
    /\ UNCHANGED <<users, tipos_ato, tabelionatos, pedidos, protocolos>>
    /\ IF ~Authenticated(u)
       THEN /\ UNCHANGED clientes
            /\ resp' = Resp("cliente_update", "redirect:login", "", 0, <<>>)
       ELSE IF pk \notin DOMAIN clientes
       THEN /\ UNCHANGED clientes
            /\ resp' = Resp("cliente_update", "404", "", 0, <<>>)
       ELSE IF method = "POST" /\ ClienteForm_is_valid(clientes, pk, post)
       THEN ClienteSalvo("cliente_update",
                         Cliente_save(clientes, pk, ClienteForm_clean(post).c))
       ELSE /\ UNCHANGED clientes
            /\ resp' = Resp("cliente_update", "render", "", pk, <<>>)

\* The state after a reconciler call with outcome r.
ProcessarPessoasFeito(prefixo, lists, apenas_cpf, r) ==
    /\ Cardinality(DOMAIN r.db) <= MaxClientes
    /\ UNCHANGED <<users, tipos_ato, tabelionatos, pedidos, protocolos>>
    /\ clientes' = atomic(clientes, r.db, r.exc)
    /\ resp' = [Resp("_processar_pessoas_do_post",
                     IF r.exc = "" THEN "return" ELSE "error", r.exc, 0,
                     <<Call(prefixo, lists, apenas_cpf, r)>>)
                EXCEPT !.repetida =
                    /\ resp.outcome = "return"
                    /\ resp.calls[1].lists = lists
                    /\ resp.calls[1].apenas_cpf = apenas_cpf]

\* A call of _processar_pessoas_do_post for one role.  Both callers run it
\* inside transaction.atomic, so its writes are kept only when it returns.
chamar_processar_pessoas(prefixo, rows, apenas_cpf) ==
    ProcessarPessoasFeito(prefixo, Lists(rows), apenas_cpf,
        _processar_pessoas_do_post(clientes, Lists(rows), apenas_cpf))

-----------------------------------------------------------------------------
(* Client lookup endpoint: views.api_buscar_cliente.  None in the JSON      *)
(* body is the id 0; primary keys start at 1.                               *)

JsonNaoEncontrado ==
    [found |-> FALSE, id |-> 0, nome |-> <<>>, tipo_pessoa |-> "",
     telefone |-> <<>>, email |-> <<>>, endereco |-> <<>>]

JsonCliente(k, c) ==
    [found |-> TRUE, id |-> k, nome |-> c.nome, tipo_pessoa |-> c.tipo_pessoa,
     telefone |-> OrEmpty(c.telefone), email |-> OrEmpty(c.email),
     endereco |-> OrEmpty(c.endereco)]

filter_cpf_only(db, d) == {k \in DOMAIN db : db[k].cpf = d}

\* Cliente.objects.filter(Q(cpf=d) | Q(cnpj=d))
filter_cpf_ou_cnpj(db, d) == {k \in DOMAIN db : db[k].cpf = d \/ db[k].cnpj = d}

\* .first() of a queryset without ordering: the row of lowest pk, or None.
first(db, ks) == IF ks = {} THEN JsonNaoEncontrado ELSE JsonCliente(SetMin(ks), db[SetMin(ks)])

\* The body of the view from documento_limpo on.
buscar_cliente(db, documento_limpo) ==
    IF ~Truthy(documento_limpo)
    THEN JsonNaoEncontrado
    ELSE first(db, filter_cpf_ou_cnpj(db, documento_limpo))

\* views.api_buscar_cliente (login_required, require_GET)
api_buscar_cliente(u, method, documento) ==
    /\ UNCHANGED <<users, tipos_ato, tabelionatos, clientes, protocolos, pedidos>>
    /\ IF ~Authenticated(u)
       THEN resp' = Resp("api_buscar_cliente", "redirect:login", "", 0, <<>>)
       ELSE IF method # "GET"
       THEN resp' = [Resp("api_buscar_cliente", "405", "", 0, <<>>) EXCEPT !.user = u]
       ELSE resp' = [Resp("api_buscar_cliente", "json", "", 0, <<>>) EXCEPT
                        !.user = u,
                        !.documento = documento,
                        !.json = buscar_cliente(clientes,
                                    SelectSeq(strip(documento), IsDigit))]

\* Query strings of the lookup endpoint.
DocumentosDeBusca ==
    {DOC_CPF, <<" ">> \o DOC_CNPJ \o <<" ">>, DOC_CNPJ_SO_DIGITOS,
     DOC_CURTO, DOC_SEM_DIGITOS, <<" ">>, <<>>}

-----------------------------------------------------------------------------
(* Access gate and act types (settings) *)

is_master_any_authenticated(u) == Authenticated(u)

\* views.is_master
is_master(u) == Authenticated(u) /\ users[u].role = MASTER

\* TipoAtoForm submissions: [nome, ativo, tempo_alerta_dias] (-1: not given).
TipoAtoPosts ==
    { [nome |-> "Certidao de Escritura", ativo |-> TRUE, tempo_alerta_dias |-> 30],
      [nome |-> "", ativo |-> TRUE, tempo_alerta_dias |-> -1] }

\* TipoAtoForm.is_valid: nome required and unique, dias >= 0 when given.
TipoAtoForm_is_valid(db, pk, post) ==
    /\ post.nome # ""
    /\ \A k \in DOMAIN db : k # pk => db[k].nome # post.nome
    /\ post.tempo_alerta_dias >= -1

\* TipoAtoForm.save: days become a timedelta, kept here as the day count;
\* "None" when not given or zero.
TipoAtoForm_save(post) ==
    [nome |-> post.nome, ativo |-> post.ativo,
     tempo_alerta |-> IF post.tempo_alerta_dias > 0
                      THEN post.tempo_alerta_dias ELSE -1]

\* views.tipo_ato_create (login_required, master_required)
tipo_ato_create(u, method, post) ==
    /\ UNCHANGED <<users, tabelionatos, pedidos, clientes, protocolos>>
    /\ IF ~Authenticated(u)
       THEN /\ UNCHANGED tipos_ato
            /\ resp' = [Resp("tipo_ato_create", "redirect:login", "", 0, <<>>) EXCEPT !.user = u]
       ELSE IF ~is_master(u)
       THEN /\ UNCHANGED tipos_ato
            /\ resp' = [Resp("tipo_ato_create", "redirect:home", "", 0, <<>>) EXCEPT !.user = u]
       ELSE IF method = "POST" /\ TipoAtoForm_is_valid(tipos_ato, 0, post)
       THEN /\ tipos_ato' = Insert(tipos_ato, TipoAtoForm_save(post))
            /\ resp' = [Resp("tipo_ato_create", "redirect:settings_view", "",
                            NextPk(tipos_ato), <<>>) EXCEPT !.user = u]
       ELSE /\ UNCHANGED tipos_ato
            /\ resp' = [Resp("tipo_ato_create", "render", "", 0, <<>>) EXCEPT !.user = u]

-----------------------------------------------------------------------------
(* User administration *)

Roles == {MASTER, ADMINISTRATIVO, ESCREVENTE}

MIN_PASSWORD_LENGTH == 6

SENHA == <<"s", "3", "n", "h", "a", "1">>

SENHA_CURTA == <<"a", "b", "c">>

\* A new, unsaved User() with the field defaults of the model.
NovoUser ==
    [username |-> "", role |-> ESCREVENTE, is_superuser |-> FALSE,
     is_staff |-> FALSE, is_active |-> TRUE]

\* UserForm.clean: the two passwords, when either is given, are equal and of
\* at least six characters; a new user needs both.
UserForm_clean(pk, post) ==
    /\ (post.password # <<>> \/ post.password_confirm # <<>>) =>
            /\ post.password = post.password_confirm
            /\ Len(post.password) >= MIN_PASSWORD_LENGTH
    /\ pk = 0 => (post.password # <<>> /\ post.password_confirm # <<>>)

\* UserForm.is_valid for the instance pk (0: a new user): username required
\* and unique, role one of the choices, and clean().
UserForm_is_valid(db, pk, post) ==
    /\ post.username # ""
    /\ \A k \in DOMAIN db : k # pk => db[k].username # post.username
    /\ post.role \in Roles
    /\ UserForm_clean(pk, post)

UserForm_save_keeps_superuser(instance, post) ==
    [instance EXCEPT !.username = post.username, !.role = post.role,
                     !.is_active = post.is_active, !.is_staff = TRUE,
                     !.is_superuser = (@ \/ post.role = MASTER)]

\* UserForm.save: the form's fields, and the flags that follow the role.
UserForm_save(instance, post) ==
    [instance EXCEPT !.username = post.username, !.role = post.role,
                     !.is_active = post.is_active, !.is_staff = TRUE,
                     !.is_superuser = (post.role = MASTER)]

\* login_required and master_required: where the request is sent instead of
\* the view, "ok" when it reaches the view.
gate(u) ==
    IF ~Authenticated(u) THEN "redirect:login"
    ELSE IF ~is_master(u) THEN "redirect:home"
    ELSE "ok"

\* views.user_list (login_required, master_required)
user_list(u, method) ==
    /\ UNCHANGED <<users, tipos_ato, tabelionatos, clientes, protocolos, pedidos>>
    /\ resp' = [Resp("user_list", IF gate(u) = "ok" THEN "render" ELSE gate(u),
                     "", 0, <<>>)
                EXCEPT !.user = u]

\* views.user_create (login_required, master_required)
user_create(u, method, post) ==
    /\ UNCHANGED <<tipos_ato, tabelionatos, clientes, protocolos, pedidos>>
    /\ IF gate(u) # "ok"
       THEN /\ UNCHANGED users
            /\ resp' = [Resp("user_create", gate(u), "", 0, <<>>) EXCEPT !.user = u]
       ELSE IF method = "POST" /\ UserForm_is_valid(users, 0, post)
       THEN /\ Cardinality(DOMAIN users) < MaxUsuarios
            /\ users' = Insert(users, UserForm_save(NovoUser, post))
            /\ resp' = [Resp("user_create", "redirect:user_list", "",
                             NextPk(users), <<>>) EXCEPT !.user = u]
       ELSE /\ UNCHANGED users
            /\ resp' = [Resp("user_create", "render", "", 0, <<>>) EXCEPT !.user = u]

\* views.user_update (login_required, master_required)
user_update(u, pk, method, post) ==
    /\ UNCHANGED <<tipos_ato, tabelionatos, clientes, protocolos, pedidos>>
    /\ IF gate(u) # "ok"
       THEN /\ UNCHANGED users
            /\ resp' = [Resp("user_update", gate(u), "", pk, <<>>) EXCEPT !.user = u]
       ELSE IF pk \notin DOMAIN users
       THEN /\ UNCHANGED users
            /\ resp' = [Resp("user_update", "404", "", pk, <<>>) EXCEPT !.user = u]
       ELSE IF method = "POST" /\ UserForm_is_valid(users, pk, post)
       THEN /\ users' = [users EXCEPT ![pk] = UserForm_save(users[pk], post)]
            /\ resp' = [Resp("user_update", "redirect:user_list", "", pk, <<>>)
                        EXCEPT !.user = u]
       ELSE /\ UNCHANGED users
            /\ resp' = [Resp("user_update", "render", "", pk, <<>>) EXCEPT !.user = u]

SetNull(p, pk) == IF p.responsavel = pk THEN [p EXCEPT !.responsavel = 0] ELSE p

User_delete_cascades(us, pr, pk) ==
    [users |-> [k \in DOMAIN us \ {pk} |-> us[k]],
     protocolos |-> [k \in {x \in DOMAIN pr : pr[x].criado_por # pk} |->
                        SetNull(pr[k], pk)],
     exc |-> ""]

\* user_obj.delete(): refused while a Protocolo names the user as criado_por
\* (PROTECT); otherwise the row goes and responsavel is set to null where it
\* named the user (SET_NULL).
User_delete(us, pr, pk) ==
    IF \E k \in DOMAIN pr : pr[k].criado_por = pk
    THEN [users |-> us, protocolos |-> pr, exc |-> "ProtectedError"]
    ELSE [users |-> [k \in DOMAIN us \ {pk} |-> us[k]],
          protocolos |-> [k \in DOMAIN pr |-> SetNull(pr[k], pk)],
          exc |-> ""]

\* The response of user_delete after the delete with outcome d.
user_deleted(u, pk, method, d) ==
    /\ users' = d.users
    /\ protocolos' = d.protocolos
    /\ resp' = [Resp("user_delete",
                     IF d.exc = "" THEN "redirect:user_list" ELSE "error",
                     d.exc, pk, <<>>)
                EXCEPT !.user = u, !.method = method, !.deleted = (d.exc = "")]

user_delete_itself_blocked_on_get_only(u, pk, method) == pk = u /\ method # "POST"

\* Lines 221-224 of user_delete: the target is the acting user.
user_delete_itself(u, pk, method) == pk = u

\* views.user_delete (login_required, master_required)
user_delete(u, pk, method) ==
    /\ UNCHANGED <<tipos_ato, tabelionatos, clientes, pedidos>>
    /\ IF gate(u) # "ok"
       THEN /\ UNCHANGED <<users, protocolos>>
            /\ resp' = [Resp("user_delete", gate(u), "", pk, <<>>) EXCEPT !.user = u, !.method = method]
       ELSE IF pk \notin DOMAIN users
       THEN /\ UNCHANGED <<users, protocolos>>
            /\ resp' = [Resp("user_delete", "404", "", pk, <<>>) EXCEPT !.user = u, !.method = method]
       ELSE IF user_delete_itself(u, pk, method)
       THEN /\ UNCHANGED <<users, protocolos>>
            /\ resp' = [Resp("user_delete", "redirect:user_list", "", pk, <<>>)
                        EXCEPT !.user = u, !.method = method]
       ELSE IF method = "POST"
       THEN user_deleted(u, pk, method, User_delete(users, protocolos, pk))
       ELSE /\ UNCHANGED <<users, protocolos>>
            /\ resp' = [Resp("user_delete", "redirect:user_list", "", pk, <<>>)
                        EXCEPT !.user = u, !.method = method]

UserPost(username, role, is_active, password, password_confirm) ==
    [username |-> username, role |-> role, is_active |-> is_active,
     password |-> password, password_confirm |-> password_confirm]

UserPosts ==
    { UserPost("ana", ESCREVENTE, TRUE, SENHA, SENHA),
      UserPost("ana", MASTER, TRUE, SENHA, SENHA),
      UserPost("ana", ADMINISTRATIVO, FALSE, <<>>, <<>>),
      UserPost("master", ESCREVENTE, TRUE, <<>>, <<>>),
      UserPost("bia", ESCREVENTE, TRUE, SENHA_CURTA, SENHA_CURTA),
      UserPost("bia", MASTER, TRUE, SENHA, SENHA_CURTA) }

-----------------------------------------------------------------------------
(* Act types: update, delete, toggle *)

\* views.tipo_ato_update (login_required, master_required)
tipo_ato_update(u, pk, method, post) ==
    /\ UNCHANGED <<users, tabelionatos, clientes, protocolos, pedidos>>
    /\ IF gate(u) # "ok"
       THEN /\ UNCHANGED tipos_ato
            /\ resp' = [Resp("tipo_ato_update", gate(u), "", pk, <<>>)
                        EXCEPT !.user = u]
       ELSE IF pk \notin DOMAIN tipos_ato
       THEN /\ UNCHANGED tipos_ato
            /\ resp' = [Resp("tipo_ato_update", "404", "", pk, <<>>) EXCEPT !.user = u]
       ELSE IF method = "POST" /\ TipoAtoForm_is_valid(tipos_ato, pk, post)
       THEN /\ tipos_ato' = [tipos_ato EXCEPT ![pk] = TipoAtoForm_save(post)]
            /\ resp' = [Resp("tipo_ato_update", "redirect:settings_view", "", pk, <<>>)
                        EXCEPT !.user = u]
       ELSE /\ UNCHANGED tipos_ato
            /\ resp' = [Resp("tipo_ato_update", "render", "", pk, <<>>)
                        EXCEPT !.user = u]

\* tipo_ato.delete(): refused while a Protocolo names the act type (PROTECT).
TipoAto_delete(db, pr, pk) ==
    IF \E k \in DOMAIN pr : pr[k].tipo_ato = pk
    THEN [db |-> db, exc |-> "ProtectedError"]
    ELSE [db |-> [k \in DOMAIN db \ {pk} |-> db[k]], exc |-> ""]

\* The response of tipo_ato_delete after the delete with outcome d.
tipo_ato_deleted(u, pk, d) ==
    /\ tipos_ato' = d.db
    /\ resp' = [Resp("tipo_ato_delete",
                     IF d.exc = "" THEN "redirect:settings_view" ELSE "error",
                     d.exc, pk, <<>>)
                EXCEPT !.user = u, !.deleted = (d.exc = "")]

\* views.tipo_ato_delete (login_required, master_required)
tipo_ato_delete(u, pk, method) ==
    /\ UNCHANGED <<users, tabelionatos, clientes, protocolos, pedidos>>
    /\ IF gate(u) # "ok"
       THEN /\ UNCHANGED tipos_ato
            /\ resp' = [Resp("tipo_ato_delete", gate(u), "", pk, <<>>)
                        EXCEPT !.user = u]
       ELSE IF pk \notin DOMAIN tipos_ato
       THEN /\ UNCHANGED tipos_ato
            /\ resp' = [Resp("tipo_ato_delete", "404", "", pk, <<>>) EXCEPT !.user = u]
       ELSE IF method = "POST"
       THEN tipo_ato_deleted(u, pk, TipoAto_delete(tipos_ato, protocolos, pk))
       ELSE /\ UNCHANGED tipos_ato
            /\ resp' = [Resp("tipo_ato_delete", "redirect:settings_view", "", pk, <<>>)
                        EXCEPT !.user = u]

\* views.tipo_ato_toggle (login_required, master_required)
tipo_ato_toggle(u, pk, method) ==
    /\ UNCHANGED <<users, tabelionatos, clientes, protocolos, pedidos>>
    /\ IF gate(u) # "ok"
       THEN /\ UNCHANGED tipos_ato
            /\ resp' = [Resp("tipo_ato_toggle", gate(u), "", pk, <<>>)
                        EXCEPT !.user = u]
       ELSE IF pk \notin DOMAIN tipos_ato
       THEN /\ UNCHANGED tipos_ato
            /\ resp' = [Resp("tipo_ato_toggle", "404", "", pk, <<>>) EXCEPT !.user = u]
       ELSE IF method = "POST"
       THEN /\ tipos_ato' = [tipos_ato EXCEPT ![pk].ativo = ~tipos_ato[pk].ativo]
            /\ resp' = [Resp("tipo_ato_toggle", "redirect:settings_view", "", pk, <<>>)
                        EXCEPT !.user = u]
       ELSE /\ UNCHANGED tipos_ato
            /\ resp' = [Resp("tipo_ato_toggle", "redirect:settings_view", "", pk, <<>>)
                        EXCEPT !.user = u]

-----------------------------------------------------------------------------
(* Tabelionato (office settings) *)

TABELIONATO_MAX_LENGTH == 255

TABELIONATO_CNPJ_MAX_LENGTH == 18

TABELIONATO_TELEFONE_MAX_LENGTH == 20

DENOMINACAO_1 == <<"1", "o", " ", "T", "N">>

DENOMINACAO_2 == <<"2", "o", " ", "T", "N">>

SITE == <<"h", "t", "t", "p", ":", "/", "/", "t", ".", "b", "r">>

\* URLValidator, on the values submitted here.
IsURL(s) == s = SITE

Tabelionato_save_sem_singleton(db, pk, t) ==
    Stored(db, IF pk = 0 THEN NextPk(db) ELSE pk, t)

\* Tabelionato.save: an instance without pk is refused when a row exists;
\* otherwise Model.save inserts (no pk) or updates.
Tabelionato_save(db, pk, t) ==
    IF pk = 0 /\ DOMAIN db # {}
    THEN [db |-> db, pk |-> pk, exc |-> "ValidationError"]
    ELSE Stored(db, IF pk = 0 THEN NextPk(db) ELSE pk, t)

\* Tabelionato.objects.first(): the pk of the first row, 0 for None.
Tabelionato_first(db) == IF DOMAIN db = {} THEN 0 ELSE SetMin(DOMAIN db)

\* The cleaned data of TabelionatoForm: text fields stripped, a blank site
\* becomes None.
TabelionatoForm_cleaned(post) ==
    [denominacao |-> strip(post.denominacao), cnpj |-> strip(post.cnpj),
     endereco |-> strip(post.endereco), telefone |-> strip(post.telefone),
     email |-> strip(post.email),
     site |-> IF strip(post.site) = <<>> THEN Null ELSE strip(post.site)]

TabelionatoForm_campos_validos(t) ==
    /\ t.denominacao # <<>> /\ Len(t.denominacao) <= TABELIONATO_MAX_LENGTH
    /\ t.cnpj # <<>> /\ Len(t.cnpj) <= TABELIONATO_CNPJ_MAX_LENGTH
    /\ t.endereco # <<>> /\ Len(t.endereco) <= TABELIONATO_MAX_LENGTH
    /\ t.telefone # <<>> /\ Len(t.telefone) <= TABELIONATO_TELEFONE_MAX_LENGTH
    /\ IsEmail(t.email)
    /\ t.site # Null => IsURL(t.site)

\* TabelionatoForm.is_valid
TabelionatoForm_is_valid(post) ==
    TabelionatoForm_campos_validos(TabelionatoForm_cleaned(post))

TabelionatoPost(save_tabelionato, denominacao, email, site) ==
    [save_tabelionato |-> save_tabelionato, denominacao |-> denominacao,
     cnpj |-> DOC_CNPJ, endereco |-> ENDERECO, telefone |-> TEL,
     email |-> email, site |-> site]

TabelionatoPosts ==
    {TabelionatoPost(TRUE, d, e, st) :
        d \in {DENOMINACAO_1, DENOMINACAO_2}, e \in {EMAIL, EMAIL_RUIM},
        st \in {<<>>, SITE}}
    \cup {TabelionatoPost(FALSE, DENOMINACAO_1, EMAIL, <<>>)}

\* views.settings_view up to the binding of the form (lines 246-254): the
\* gate, the read of the singleton row, and the form bound to what was read.
\* A request that binds a form stays in flight until it saves.
settings_view(u, method, post, slot) ==
    /\ slot \notin DOMAIN pedidos
    /\ UNCHANGED <<users, tipos_ato, tabelionatos, clientes, protocolos>>
    /\ IF ~Authenticated(u)
       THEN /\ UNCHANGED pedidos
            /\ resp' = [Resp("settings_view", "redirect:login", "", 0, <<>>) EXCEPT !.user = u]
       ELSE IF ~is_master(u)
       THEN /\ UNCHANGED pedidos
            /\ resp' = [Resp("settings_view", "redirect:home", "", 0, <<>>) EXCEPT !.user = u]
       ELSE IF method = "POST" /\ post.save_tabelionato
       THEN /\ pedidos' = Insert_at(pedidos, slot,
                              [tabelionato |-> Tabelionato_first(tabelionatos),
                               post |-> post, verificado |-> FALSE])
            /\ resp' = [Resp("settings_view", "bound", "",
                            Tabelionato_first(tabelionatos), <<>>) EXCEPT !.user = u]
       ELSE /\ UNCHANGED pedidos
            /\ resp' = [Resp("settings_view", "render", "",
                            Tabelionato_first(tabelionatos), <<>>) EXCEPT !.user = u]

\* The response to the request rq after the save with outcome s.
settings_view_salvo(rq, s) ==
    /\ tabelionatos' = s.db
    /\ resp' = [Resp("settings_view",
                     IF s.exc = "" THEN "redirect:settings_view" ELSE "error",
                     s.exc, rq.tabelionato, <<>>)
                EXCEPT !.post = rq.post]

\* views.settings_view from is_valid on (lines 256-259), for the request in
\* flight in slot.
settings_view_salvar(slot) ==
    /\ slot \in DOMAIN pedidos
    /\ UNCHANGED <<users, tipos_ato, clientes, protocolos>>
    /\ pedidos' = [x \in DOMAIN pedidos \ {slot} |-> pedidos[x]]
    /\ IF TabelionatoForm_is_valid(pedidos[slot].post)
       THEN settings_view_salvo(pedidos[slot],
                Tabelionato_save(tabelionatos, pedidos[slot].tabelionato,
                                 TabelionatoForm_cleaned(pedidos[slot].post)))
       ELSE /\ UNCHANGED tabelionatos
            /\ resp' = [Resp("settings_view", "render:form_errors", "",
                             pedidos[slot].tabelionato, <<>>)
                        EXCEPT !.post = pedidos[slot].post]

-----------------------------------------------------------------------------
(* Concurrent saves of the office settings.  settings_view runs without a   *)
(* transaction, and Tabelionato.save is two statements: the query           *)
(* Tabelionato.objects.exists() and then Model.save's INSERT or UPDATE.     *)
(* A request in flight that passed the query is marked verificado.          *)

\* Lines 256-257 and models.py:35-36: is_valid, then the singleton test.
settings_view_exists(slot) ==
    /\ slot \in DOMAIN pedidos
    /\ ~pedidos[slot].verificado
    /\ UNCHANGED <<users, tipos_ato, tabelionatos, clientes, protocolos>>
    /\ IF ~TabelionatoForm_is_valid(pedidos[slot].post)
       THEN /\ pedidos' = [x \in DOMAIN pedidos \ {slot} |-> pedidos[x]]
            /\ resp' = [Resp("settings_view", "render:form_errors", "",
                             pedidos[slot].tabelionato, <<>>)
                        EXCEPT !.post = pedidos[slot].post]
       ELSE IF pedidos[slot].tabelionato = 0 /\ DOMAIN tabelionatos # {}
       THEN /\ pedidos' = [x \in DOMAIN pedidos \ {slot} |-> pedidos[x]]
            /\ resp' = [Resp("settings_view", "error", "ValidationError",
                             pedidos[slot].tabelionato, <<>>)
                        EXCEPT !.post = pedidos[slot].post]
       ELSE /\ pedidos' = [pedidos EXCEPT ![slot].verificado = TRUE]
            /\ UNCHANGED resp

\* models.py:37: super().save(), the INSERT (no pk) or UPDATE.
settings_view_super_save(slot) ==
    /\ slot \in DOMAIN pedidos
    /\ pedidos[slot].verificado
    /\ UNCHANGED <<users, tipos_ato, clientes, protocolos>>
    /\ pedidos' = [x \in DOMAIN pedidos \ {slot} |-> pedidos[x]]
    /\ settings_view_salvo(pedidos[slot],
            Stored(tabelionatos,
                   IF pedidos[slot].tabelionato = 0 THEN NextPk(tabelionatos)
                   ELSE pedidos[slot].tabelionato,
                   TabelionatoForm_cleaned(pedidos[slot].post)))

-----------------------------------------------------------------------------
(* Protocolo model and ProtocoloCertidaoForm *)

ATO_NOTARIAL == "ATO_NOTARIAL"

CERTIDAO == "CERTIDAO"

EM_ANDAMENTO == "EM_ANDAMENTO"

CONCLUIDO == "CONCLUIDO"

\* timezone.now() of the requests, and of the rows stored before them.
Agora == "2026-11-05T10:00"

Ontem == "2026-11-04T10:00"

\* Well-formed values of the date, time and decimal form fields.
DatasValidas == {"2026-11-05"}

HorariosValidos == {"14:30"}

ValoresValidos == {"0.00", "150.00"}

\* A new, unsaved Protocolo() with the field defaults of the model; the
\* access token stands for the uuid4 drawn at construction.
NovoProtocolo(token) ==
    [numero_protocolo |-> "", hash_acesso_publico |-> token,
     tipo |-> ATO_NOTARIAL, status |-> EM_ANDAMENTO, tipo_ato |-> 0,
     data_criacao |-> "None",
     data_agendamento |-> "None", horario_agendamento |-> "None",
     deposito_previo |-> "0.00", observacoes |-> "None",
     lista_documentos |-> <<>>, criado_por |-> 0, responsavel |-> 0,
     clientes |-> {}, advogados |-> {}]

\* ProtocoloCertidaoForm.is_valid: tipo_ato among the active act types,
\* responsavel among the active users, both required; date and time optional
\* and well-formed; deposit required and well-formed.
ProtocoloCertidaoForm_is_valid(post) ==
    /\ post.tipo_ato \in {k \in DOMAIN tipos_ato : tipos_ato[k].ativo}
    /\ post.responsavel \in {k \in DOMAIN users : users[k].is_active}
    /\ post.data_agendamento \in DatasValidas \cup {""}
    /\ post.horario_agendamento \in HorariosValidos \cup {""}
    /\ post.deposito_previo \in ValoresValidos

BlankToNone(v) == IF v = "" THEN "None" ELSE v

\* form.save(commit=False): the form's fields written on the instance.
ProtocoloCertidaoForm_save(p, post) ==
    [p EXCEPT !.tipo_ato = post.tipo_ato,
              !.data_agendamento = BlankToNone(post.data_agendamento),
              !.horario_agendamento = BlankToNone(post.horario_agendamento),
              !.responsavel = post.responsavel,
              !.deposito_previo = post.deposito_previo,
              !.observacoes = post.observacoes]

Stripped(docs) == [i \in 1..Len(docs) |-> strip(docs[i])]

NaoVazio(d) == d # <<>>

_processar_lista_documentos_keeps_blanks(documento_item) ==
    Stripped(documento_item)

\* views._processar_lista_documentos
_processar_lista_documentos(documento_item) ==
    SelectSeq(Stripped(documento_item), NaoVazio)

\* DateTimeField(auto_now_add=True).pre_save: the current time when the row
\* is added, the value of the instance otherwise.
data_criacao_pre_save(p, add) ==
    IF add THEN [p EXCEPT !.data_criacao = Agora] ELSE p

\* Model.save on Protocolo: INSERT (pk = 0) or UPDATE; the unique columns
\* numero_protocolo and hash_acesso_publico are enforced by the database.
Protocolo_save(db, pk, p) ==
    IF \E k \in DOMAIN db : k # pk /\
            (db[k].numero_protocolo = p.numero_protocolo
             \/ db[k].hash_acesso_publico = p.hash_acesso_publico)
    THEN [db |-> db, pk |-> pk, exc |-> "IntegrityError"]
    ELSE Stored(db, IF pk = 0 THEN NextPk(db) ELSE pk,
                data_criacao_pre_save(p, pk = 0))

m2m_add(db, pk, campo, pessoas) ==
    [db EXCEPT ![pk] = [db[pk] EXCEPT ![campo] = @ \cup Range(pessoas)]]

\* protocolo.<campo>.set(pessoas) / .clear()
m2m_set(db, pk, campo, pessoas) ==
    [db EXCEPT ![pk] = [db[pk] EXCEPT ![campo] = Range(pessoas)]]

\* The result of a view body: both tables as written so far, the exception
\* that ended it ("" when none), the protocol's pk and the reconciler calls.
Outcome(cl, pr, exc, pk, calls) ==
    [clientes |-> cl, protocolos |-> pr, exc |-> exc, pk |-> pk, calls |-> calls]

-----------------------------------------------------------------------------
(* views.protocolo_certidao_create, lines 609-634, statement by statement *)

\* Lines 626-631: the lawyers, after the call r2 of the reconciler.
create_advogados_feito(pr, pk, calls, r2) ==
    IF r2.exc # ""
    THEN Outcome(r2.db, pr, r2.exc, pk, calls)
    ELSE Outcome(r2.db,
                 IF r2.pessoas # <<>> THEN m2m_set(pr, pk, "advogados", r2.pessoas)
                 ELSE pr,
                 "", pk, calls)

create_advogados(cl, pr, pk, post, calls) ==
    IF post.tem_advogado = "on"
    THEN create_advogados_feito(pr, pk,
             Append(calls, Call("advogado", Lists(post.advogados), TRUE,
                 _processar_pessoas_do_post(cl, Lists(post.advogados), TRUE))),
             _processar_pessoas_do_post(cl, Lists(post.advogados), TRUE))
    ELSE Outcome(cl, pr, "", pk, calls)

\* Lines 621-624: the clients, after the call r1 of the reconciler.
create_clientes_feito(pr, pk, post, lists, r1) ==
    IF r1.exc # ""
    THEN Outcome(r1.db, pr, r1.exc, pk, <<Call("cliente", lists, FALSE, r1)>>)
    ELSE create_advogados(r1.db,
                          IF r1.pessoas # <<>>
                          THEN m2m_set(pr, pk, "clientes", r1.pessoas) ELSE pr,
                          pk, post, <<Call("cliente", lists, FALSE, r1)>>)

\* Line 619: protocolo.save(), with outcome s.
create_salvo(cl, post, s) ==
    IF s.exc # ""
    THEN Outcome(cl, s.db, s.exc, 0, <<>>)
    ELSE create_clientes_feito(s.db, s.pk, post, Lists(post.clientes),
             _processar_pessoas_do_post(cl, Lists(post.clientes), FALSE))

\* Lines 611-617: the instance that is saved.
create_instancia(pr, u, post) ==
    [ProtocoloCertidaoForm_save(NovoProtocolo(NextPk(pr)), post) EXCEPT
        !.tipo = CERTIDAO,
        !.criado_por = u,
        !.responsavel = u,
        !.lista_documentos = _processar_lista_documentos(post.documento_item)]

create_body(cl, pr, u, post) ==
    create_salvo(cl, post, Protocolo_save(pr, 0, create_instancia(pr, u, post)))

-----------------------------------------------------------------------------
(* views.protocolo_certidao_update, lines 669-692 *)

\* Lines 684-689: the lawyers.
update_advogados_feito(pr, pk, calls, r2) ==
    IF r2.exc # ""
    THEN Outcome(r2.db, pr, r2.exc, pk, calls)
    ELSE Outcome(r2.db, m2m_set(pr, pk, "advogados", r2.pessoas), "", pk, calls)

update_advogados_sem_clear(cl, pr, pk, post, calls) ==
    IF post.tem_advogado = "on"
    THEN update_advogados_feito(pr, pk,
             Append(calls, Call("advogado", Lists(post.advogados), TRUE,
                 _processar_pessoas_do_post(cl, Lists(post.advogados), TRUE))),
             _processar_pessoas_do_post(cl, Lists(post.advogados), TRUE))
    ELSE Outcome(cl, pr, "", pk, calls)

update_advogados(cl, pr, pk, post, calls) ==
    IF post.tem_advogado = "on"
    THEN update_advogados_feito(pr, pk,
             Append(calls, Call("advogado", Lists(post.advogados), TRUE,
                 _processar_pessoas_do_post(cl, Lists(post.advogados), TRUE))),
             _processar_pessoas_do_post(cl, Lists(post.advogados), TRUE))
    ELSE Outcome(cl, m2m_set(pr, pk, "advogados", <<>>), "", pk, calls)

\* Lines 680-681: the clients, after the call r1 of the reconciler.
update_clientes_feito(pr, pk, post, lists, r1) ==
    IF r1.exc # ""
    THEN Outcome(r1.db, pr, r1.exc, pk, <<Call("cliente", lists, FALSE, r1)>>)
    ELSE update_advogados(r1.db, m2m_set(pr, pk, "clientes", r1.pessoas),
                          pk, post, <<Call("cliente", lists, FALSE, r1)>>)

\* Line 677: protocolo.save(), with outcome s.
update_salvo(cl, post, s) ==
    IF s.exc # ""
    THEN Outcome(cl, s.db, s.exc, s.pk, <<>>)
    ELSE update_clientes_feito(s.db, s.pk, post, Lists(post.clientes),
             _processar_pessoas_do_post(cl, Lists(post.clientes), FALSE))

\* Lines 671-675: the instance that is saved.
update_instancia(pr, pk, post) ==
    [ProtocoloCertidaoForm_save(pr[pk], post) EXCEPT
        !.tipo = CERTIDAO,
        !.lista_documentos = _processar_lista_documentos(post.documento_item)]

update_body(cl, pr, pk, post) ==
    update_salvo(cl, post, Protocolo_save(pr, pk, update_instancia(pr, pk, post)))

-----------------------------------------------------------------------------
(* The two protocol views *)

\* The response of a view whose body ended with outcome o, and the commit
\* or rollback of its transaction.
\* The response also records the submission and the protocol as it was
\* stored when the request came in (Null on create).
ProtocoloFeito(op, u, post, antes, o) ==
    /\ Cardinality(DOMAIN o.clientes) <= MaxClientes
    /\ clientes' = atomic(clientes, o.clientes, o.exc)
    /\ protocolos' = atomic(protocolos, o.protocolos, o.exc)
    /\ resp' = [Resp(op, IF o.exc = "" THEN "redirect:protocolo_certidao_update"
                         ELSE "error",
                     o.exc, o.pk, o.calls)
                EXCEPT !.post = post, !.antes = antes, !.user = u]

form_invalido_processa(op, pk, post, antes) ==
    /\ protocolos' = protocolos
    /\ clientes' = _processar_pessoas_do_post(clientes, Lists(post.clientes), FALSE).db
    /\ resp' = [Resp(op, "render:form_errors", "", pk,
                     <<Call("cliente", Lists(post.clientes), FALSE,
                            _processar_pessoas_do_post(clientes, Lists(post.clientes),
                                                       FALSE))>>)
                EXCEPT !.post = post, !.antes = antes]

\* The form did not validate: nothing is processed and the page is rendered
\* again with the form's errors.
form_invalido(op, pk, post, antes) ==
    /\ UNCHANGED <<clientes, protocolos>>
    /\ resp' = [Resp(op, "render:form_errors", "", pk, <<>>)
                EXCEPT !.post = post, !.antes = antes]

\* views.protocolo_certidao_create (login_required, transaction.atomic)
protocolo_certidao_create(u, method, post) ==
    /\ UNCHANGED <<users, tipos_ato, tabelionatos, pedidos>>
    /\ IF ~Authenticated(u)
       THEN /\ UNCHANGED <<clientes, protocolos>>
            /\ resp' = Resp("protocolo_certidao_create", "redirect:login", "", 0, <<>>)
       ELSE IF method = "POST" /\ ProtocoloCertidaoForm_is_valid(post)
       THEN ProtocoloFeito("protocolo_certidao_create", u, post, Null,
                           create_body(clientes, protocolos, u, post))
       ELSE IF method = "POST"
       THEN form_invalido("protocolo_certidao_create", 0, post, Null)
       ELSE /\ UNCHANGED <<clientes, protocolos>>
            /\ resp' = Resp("protocolo_certidao_create", "render", "", 0, <<>>)

protocolo_certidao_update_any_tipo(u, pk, method, post) ==
    /\ UNCHANGED <<users, tipos_ato, tabelionatos, pedidos>>
    /\ IF ~Authenticated(u)
       THEN /\ UNCHANGED <<clientes, protocolos>>
            /\ resp' = Resp("protocolo_certidao_update", "redirect:login", "", 0, <<>>)
       ELSE IF pk \notin DOMAIN protocolos
       THEN /\ UNCHANGED <<clientes, protocolos>>
            /\ resp' = Resp("protocolo_certidao_update", "404", "", pk, <<>>)
       ELSE IF method = "POST" /\ ProtocoloCertidaoForm_is_valid(post)
       THEN ProtocoloFeito("protocolo_certidao_update", u, post, protocolos[pk],
                           update_body(clientes, protocolos, pk, post))
       ELSE IF method = "POST"
       THEN form_invalido("protocolo_certidao_update", pk, post, protocolos[pk])
       ELSE /\ UNCHANGED <<clientes, protocolos>>
            /\ resp' = Resp("protocolo_certidao_update", "render", "", pk, <<>>)

\* views.protocolo_certidao_update (login_required, transaction.atomic)
protocolo_certidao_update(u, pk, method, post) ==
    /\ UNCHANGED <<users, tipos_ato, tabelionatos, pedidos>>
    /\ IF ~Authenticated(u)
       THEN /\ UNCHANGED <<clientes, protocolos>>
            /\ resp' = Resp("protocolo_certidao_update", "redirect:login", "", 0, <<>>)
       ELSE IF pk \notin {k \in DOMAIN protocolos : protocolos[k].tipo = CERTIDAO}
       THEN /\ UNCHANGED <<clientes, protocolos>>
            /\ resp' = Resp("protocolo_certidao_update", "404", "", pk, <<>>)
       ELSE IF method = "POST" /\ ProtocoloCertidaoForm_is_valid(post)
       THEN ProtocoloFeito("protocolo_certidao_update", u, post, protocolos[pk],
                           update_body(clientes, protocolos, pk, post))
       ELSE IF method = "POST"
       THEN form_invalido("protocolo_certidao_update", pk, post, protocolos[pk])
       ELSE /\ UNCHANGED <<clientes, protocolos>>
            /\ resp' = Resp("protocolo_certidao_update", "render", "", pk, <<>>)

-----------------------------------------------------------------------------
(* Concurrent protocol submissions.  Each request runs in its own           *)
(* transaction (transaction.atomic on the view) at READ COMMITTED: it reads  *)
(* the committed table clientes, its writes (escrito) become visible when   *)
(* it commits.  The upsert of one person row is taken statement by          *)
(* statement: update_or_create is get (SELECT ... FOR UPDATE), then on      *)
(* DoesNotExist create = Cliente.save = full_clean + INSERT, and on         *)
(* IntegrityError get again; a found row is changed and saved.  pedidos     *)
(* holds the transactions in flight: slot -> [linha, apenas_cpf, campo,     *)
(* doc, dados, pc, pk, escrito, exc, integrity_error].                      *)

\* The transaction of a request whose person row was classified as cl,
\* about to call update_or_create(<campo>=doc, defaults=dados).
Pedido(linha, apenas_cpf, cl) ==
    [linha |-> linha, apenas_cpf |-> apenas_cpf,
     campo |-> IF Truthy(cl.cpf) THEN "cpf" ELSE "cnpj",
     doc |-> IF Truthy(cl.cpf) THEN cl.cpf ELSE cl.cnpj,
     dados |-> dados_cliente(strip(linha.nome), cl.tipo_pessoa, strip(linha.telefone),
                             strip(linha.email), strip(linha.endereco)),
     pc |-> "get", pk |-> 0, escrito |-> <<>>, exc |-> "",
     integrity_error |-> FALSE]

\* The object create() builds: Cliente(<campo>=doc, **dados).
NovoObjeto(p) == SetFields([NovoCliente EXCEPT ![p.campo] = p.doc], p.dados)

Conflitos_sem_indice(rows, c) == {}

\* The rows that the unique indexes on cpf and on cnpj do not allow beside
\* c (NULLs are distinct).
Conflitos(rows, c) ==
    {k \in DOMAIN rows : \/ (c.cpf # Null /\ rows[k].cpf = c.cpf)
                        \/ (c.cnpj # Null /\ rows[k].cnpj = c.cnpj)}

\* The next value of the id sequence: not a committed and not a written pk.
NextPkConcorrente ==
    SetMin({k \in 1..(Cardinality(DOMAIN clientes) + Cardinality(DOMAIN pedidos) + 1) :
                /\ k \notin DOMAIN clientes
                /\ \A t \in DOMAIN pedidos : k \notin DOMAIN pedidos[t].escrito})

\* The table with the rows written by a transaction.
Commit(db, escrito) ==
    [k \in DOMAIN db \cup DOMAIN escrito |->
        IF k \in DOMAIN escrito THEN escrito[k] ELSE db[k]]

Passo(slot, p) ==
    /\ pedidos' = [pedidos EXCEPT ![slot] = p]
    /\ UNCHANGED <<users, tipos_ato, tabelionatos, clientes, protocolos, resp>>

\* A request arrives and its view reaches the upsert of its person row; it
\* is given the first free slot.
pedido_inicia(slot, linha, apenas_cpf) ==
    /\ slot \notin DOMAIN pedidos
    /\ \A t \in 1..(slot - 1) : t \in DOMAIN pedidos
    /\ Truthy(_limpar_documento(linha.documento))
    /\ Truthy(strip(linha.nome))
    /\ pedidos' = Insert_at(pedidos, slot,
                    Pedido(linha, apenas_cpf,
                           classificar(_limpar_documento(linha.documento), apenas_cpf)))
    /\ UNCHANGED <<users, tipos_ato, tabelionatos, clientes, protocolos, resp>>

\* select_for_update().get(<campo>=doc): waits while another transaction
\* holds the row.
pedido_get(slot) ==
    /\ slot \in DOMAIN pedidos
    /\ pedidos[slot].pc \in {"get", "get_again"}
    /\ \A t \in DOMAIN pedidos \ {slot} :
            pedidos[t].pk \notin Lookup(clientes, pedidos[slot].campo, pedidos[slot].doc)
    /\ Passo(slot,
             IF Cardinality(Lookup(clientes, pedidos[slot].campo, pedidos[slot].doc)) > 1
             THEN [pedidos[slot] EXCEPT !.pc = "fim", !.exc = "MultipleObjectsReturned"]
             ELSE IF Lookup(clientes, pedidos[slot].campo, pedidos[slot].doc) # {}
             THEN [pedidos[slot] EXCEPT
                        !.pc = "save",
                        !.pk = CHOOSE k \in Lookup(clientes, pedidos[slot].campo,
                                                   pedidos[slot].doc) : TRUE]
             ELSE IF pedidos[slot].pc = "get"
             THEN [pedidos[slot] EXCEPT !.pc = "full_clean"]
             ELSE [pedidos[slot] EXCEPT !.pc = "fim", !.exc = "IntegrityError"])

\* create(): Cliente.save calls full_clean before the INSERT.
pedido_full_clean(slot) ==
    /\ slot \in DOMAIN pedidos
    /\ pedidos[slot].pc = "full_clean"
    /\ Passo(slot,
             IF full_clean(clientes, 0, NovoObjeto(pedidos[slot]))
             THEN [pedidos[slot] EXCEPT !.pc = "insert"]
             ELSE [pedidos[slot] EXCEPT !.pc = "fim", !.exc = "ValidationError"])

\* The INSERT: it waits for a transaction in flight that wrote a row with
\* the same key, raises IntegrityError beside a committed one (caught by
\* get_or_create, which gets again), and writes the row otherwise.
pedido_insert(slot) ==
    /\ slot \in DOMAIN pedidos
    /\ pedidos[slot].pc = "insert"
    /\ \A t \in DOMAIN pedidos \ {slot} :
            Conflitos(pedidos[t].escrito, NovoObjeto(pedidos[slot])) = {}
    /\ Passo(slot,
             IF Conflitos(clientes, NovoObjeto(pedidos[slot])) # {}
             THEN [pedidos[slot] EXCEPT !.pc = "get_again", !.integrity_error = TRUE]
             ELSE [pedidos[slot] EXCEPT
                        !.pc = "fim",
                        !.pk = NextPkConcorrente,
                        !.escrito = Insert_at(<<>>, NextPkConcorrente,
                                              NovoObjeto(pedidos[slot]))])

\* The found row gets the defaults and is saved: full_clean, then UPDATE.
pedido_save(slot) ==
    /\ slot \in DOMAIN pedidos
    /\ pedidos[slot].pc = "save"
    /\ Passo(slot,
             IF full_clean(clientes, pedidos[slot].pk,
                           SetFields(clientes[pedidos[slot].pk], pedidos[slot].dados))
             THEN [pedidos[slot] EXCEPT
                        !.pc = "fim",
                        !.escrito = Insert_at(<<>>, pedidos[slot].pk,
                                        SetFields(clientes[pedidos[slot].pk],
                                                  pedidos[slot].dados))]
             ELSE [pedidos[slot] EXCEPT !.pc = "fim", !.exc = "ValidationError"])

\* The view ends: transaction.atomic commits, or rolls back when the upsert
\* or a later statement of the view (depois) raised.
pedido_termina(slot, depois) ==
    /\ slot \in DOMAIN pedidos
    /\ pedidos[slot].pc = "fim"
    /\ pedidos[slot].exc # "" => depois = pedidos[slot].exc
    /\ clientes' = atomic(clientes, Commit(clientes, pedidos[slot].escrito), depois)
    /\ pedidos' = [x \in DOMAIN pedidos \ {slot} |-> pedidos[x]]
    /\ resp' = [Resp("protocolo_certidao", IF depois = "" THEN "commit" ELSE "rollback",
                      depois, pedidos[slot].pk, <<>>)
                    EXCEPT !.post = [campo |-> pedidos[slot].campo,
                                     doc |-> pedidos[slot].doc,
                                     nome |-> strip(pedidos[slot].linha.nome),
                                     integrity_error |-> pedidos[slot].integrity_error]]
    /\ UNCHANGED <<users, tipos_ato, tabelionatos, protocolos>>

-----------------------------------------------------------------------------
(* Template filters: templatetags/format_utils.py *)

FORMAT_CPF_DIGITS == 11

FORMAT_CNPJ_DIGITS == 14

format_cpf_at_least(value) ==
    IF ~Truthy(value) THEN <<>>
    ELSE IF Len(SelectSeq(value, IsDigit)) < FORMAT_CPF_DIGITS THEN value
    ELSE SubSeq(SelectSeq(value, IsDigit), 1, 3) \o <<".">>
            \o SubSeq(SelectSeq(value, IsDigit), 4, 6) \o <<".">>
            \o SubSeq(SelectSeq(value, IsDigit), 7, 9) \o <<"-">>
            \o SubSeq(SelectSeq(value, IsDigit), 10, Len(SelectSeq(value, IsDigit)))

\* format_cpf: f'{cpf[:3]}.{cpf[3:6]}.{cpf[6:9]}-{cpf[9:]}'
format_cpf(value) ==
    IF ~Truthy(value) THEN <<>>
    ELSE IF Len(SelectSeq(value, IsDigit)) # FORMAT_CPF_DIGITS THEN value
    ELSE SubSeq(SelectSeq(value, IsDigit), 1, 3) \o <<".">>
            \o SubSeq(SelectSeq(value, IsDigit), 4, 6) \o <<".">>
            \o SubSeq(SelectSeq(value, IsDigit), 7, 9) \o <<"-">>
            \o SubSeq(SelectSeq(value, IsDigit), 10, Len(SelectSeq(value, IsDigit)))

\* format_cnpj: f'{cnpj[:2]}.{cnpj[2:5]}.{cnpj[5:8]}/{cnpj[8:12]}-{cnpj[12:]}'
format_cnpj(value) ==
    IF ~Truthy(value) THEN <<>>
    ELSE IF Len(SelectSeq(value, IsDigit)) # FORMAT_CNPJ_DIGITS THEN value
    ELSE SubSeq(SelectSeq(value, IsDigit), 1, 2) \o <<".">>
            \o SubSeq(SelectSeq(value, IsDigit), 3, 5) \o <<".">>
            \o SubSeq(SelectSeq(value, IsDigit), 6, 8) \o <<"/">>
            \o SubSeq(SelectSeq(value, IsDigit), 9, 12) \o <<"-">>
            \o SubSeq(SelectSeq(value, IsDigit), 13, Len(SelectSeq(value, IsDigit)))

\* One application of a text function to value; only the response changes.
Aplicado(op, value, retorno) ==
    /\ UNCHANGED <<users, tipos_ato, tabelionatos, clientes, protocolos, pedidos>>
    /\ resp' = [Resp(op, "return", "", 0, <<>>) EXCEPT !.value = value,
                                                      !.retorno = retorno]

\* {{ cliente.cpf|format_cpf }}
filter_format_cpf(value) == Aplicado("format_cpf", value, format_cpf(value))

\* {{ cliente.cnpj|format_cnpj }}
filter_format_cnpj(value) == Aplicado("format_cnpj", value, format_cnpj(value))

\* A call of views._limpar_documento
chamar_limpar_documento(valor) ==
    Aplicado("_limpar_documento", valor, _limpar_documento(valor))

\* A call of ClienteForm._limpar_documento
chamar_ClienteForm_limpar_documento(valor) ==
    Aplicado("ClienteForm._limpar_documento", valor, ClienteForm_limpar_documento(valor))

-----------------------------------------------------------------------------
(* Specifications *)

Methods == {"GET", "POST"}

Init ==
    /\ users = <<>>
    /\ tipos_ato = <<>>
    /\ tabelionatos = <<>>
    /\ clientes = <<>>
    /\ protocolos = <<>>
    /\ pedidos = <<>>
    /\ resp = Resp("", "", "", 0, <<>>)

\* The requests a view is explored with: one anonymous request, one GET
\* and every POST of Posts by each stored user.
Requests(Posts) ==
    {<<Anonymous, "POST", CHOOSE p \in Posts : TRUE>>}
        \cup {<<u, "GET", CHOOSE p \in Posts : TRUE>> : u \in DOMAIN users}
        \cup {<<u, "POST", p>> : u \in DOMAIN users, p \in Posts}

\* Row lists of several rows: the first rows (up to MaxLinhas) of each of
\* these submissions.
ModelosDeClientes ==
    { <<L_CPF_ANA, L_CPF_BIA, L_CNPJ_ANA, L_SEM_DIGITOS>>,
      <<L_CPF_ANA, L_SEM_DIGITOS, L_CPF_BIA, L_CNPJ_ANA>>,
      <<L_CNPJ_ANA, L_CPF_BIA, L_CPF_BIA, L_CPF_ANA>> }

ListasDeClientes ==
    {SubSeq(m, 1, n) : m \in ModelosDeClientes, n \in 0..MaxLinhas}

\* Row lists of one role given to the reconciler directly: every list of up
\* to one row of Linhas, and the longer ones above.
ListasDePessoas == SeqsUpTo(Linhas, 1) \cup ListasDeClientes

\* The client registry and the person reconciler.
NextPessoas ==
    \/ \E m \in Methods, post \in SetupPosts : setup_system(m, post)
    \/ \E rq \in Requests(ClientePosts) : cliente_create(rq[1], rq[2], rq[3])
    \/ \E rq \in Requests(ClientePosts), pk \in DOMAIN clientes \cup {NextPk(clientes)} :
            cliente_update(rq[1], pk, rq[2], rq[3])
    \/ \E rows \in ListasDePessoas, apenas_cpf \in BOOLEAN :
            chamar_processar_pessoas(IF apenas_cpf THEN "advogado" ELSE "cliente",
                                     rows, apenas_cpf)
    \/ \E u \in DOMAIN users \cup {Anonymous}, m \in Methods, documento \in DocumentosDeBusca :
            api_buscar_cliente(u, m, documento)

SpecPessoas == Init /\ [][NextPessoas]_vars


\* Digit strings of n digits: the multiples of passo, last digit only.
DigitChars == <<"0", "1", "2", "3", "4", "5", "6", "7", "8", "9">>

Digitos(passo, n) == [i \in 1..n |-> DigitChars[((i * passo) % 10) + 1]]

RECURSIVE Pontuado(_)
\* d with a dot after every third digit.
Pontuado(d) ==
    IF Len(d) <= 3 THEN d
    ELSE SubSeq(d, 1, 3) \o <<".">> \o Pontuado(SubSeq(d, 4, Len(d)))

\* Values given to the text functions: digit strings of every length up
\* to MaxDigitos, bare, padded with blanks, punctuated and between letters.
Textos ==
    UNION {{d, <<" ">> \o d \o <<" ">>, Pontuado(d), <<"n">> \o d \o <<"/">>} :
            d \in {Digitos(passo, n) : passo \in {1, 3}, n \in 0..MaxDigitos}}

\* The template filters also receive None (a NULL column).
NextTexto ==
    \/ \E value \in Textos \cup {Null} : filter_format_cpf(value)
    \/ \E value \in Textos \cup {Null} : filter_format_cnpj(value)
    \/ \E valor \in Textos : chamar_limpar_documento(valor)
    \/ \E valor \in Textos : chamar_ClienteForm_limpar_documento(valor)

SpecTexto == Init /\ [][NextTexto]_vars

\* Client rows with a name and a punctuated document of every number of
\* digits from 1 to MaxDigitos, given to the reconciler one at a time.
NextDocumentos ==
    \E n \in 1..MaxDigitos :
        chamar_processar_pessoas("cliente",
            <<Linha(Pontuado(Digitos(1, n)), ANA, <<>>, <<>>, <<>>)>>, FALSE)

SpecDocumentos == Init /\ [][NextDocumentos]_vars

\* Person rows of the concurrent submissions, with apenas_cpf: two that
\* share the key cpf = 11122233344 (a client and a lawyer) and one company.
LinhasConcorrentes ==
    {<<L_CPF_ANA, FALSE>>, <<L_CNPJ_BIA, TRUE>>, <<L_CNPJ_ANA, FALSE>>}

NextConcorrente ==
    \/ \E slot \in 1..MaxPedidos, l \in LinhasConcorrentes :
            pedido_inicia(slot, l[1], l[2])
    \/ \E slot \in 1..MaxPedidos : pedido_get(slot)
    \/ \E slot \in 1..MaxPedidos : pedido_full_clean(slot)
    \/ \E slot \in 1..MaxPedidos : pedido_insert(slot)
    \/ \E slot \in 1..MaxPedidos : pedido_save(slot)
    \/ \E slot \in 1..MaxPedidos, depois \in {"", "ValidationError", "IntegrityError"} :
            pedido_termina(slot, depois)

SpecConcorrente == Init /\ [][NextConcorrente]_vars

\* Submissions of the certificate protocol form.
ProtocoloPost(tipo_ato, data, clis, tem_advogado, advs) ==
    [tipo_ato |-> tipo_ato, data_agendamento |-> data,
     horario_agendamento |-> "", responsavel |-> 1,
     deposito_previo |-> "150.00", observacoes |-> "",
     documento_item |-> <<<<" ", "R", "G", " ">>, <<" ">>>>,
     clientes |-> clis, tem_advogado |-> tem_advogado, advogados |-> advs]

ListasDeAdvogados == SeqsUpTo({L_CNPJ_BIA, L_SEM_DIGITOS}, 1)

ProtocoloPosts ==
    {ProtocoloPost(1, "2026-11-05", clis, tem, advs) :
        clis \in ListasDeClientes, tem \in {"on", ""}, advs \in ListasDeAdvogados}
    \cup {ProtocoloPost(2, "2026-11-05", <<L_CPF_ANA>>, "on", <<L_CPF_BIA>>),
          ProtocoloPost(1, "amanha", <<L_CPF_ANA>>, "on", <<L_CPF_BIA>>)}

\* Certificate protocols: first access, one act type, and the two views.
NextProtocolo ==
    \/ \E m \in Methods, post \in SetupPosts : setup_system(m, post)
    \/ \E rq \in Requests(TipoAtoPosts) : tipo_ato_create(rq[1], rq[2], rq[3])
    \/ \E rq \in Requests(ProtocoloPosts) :
            protocolo_certidao_create(rq[1], rq[2], rq[3])
    \/ \E rq \in Requests(ProtocoloPosts),
          pk \in DOMAIN protocolos \cup {NextPk(protocolos)} :
            protocolo_certidao_update(rq[1], pk, rq[2], rq[3])

SpecProtocolo == Init /\ [][NextProtocolo]_vars

\* Submitted documento_item[] lists: none, padded and blank entries, blank
\* entries only, and a repeated entry around another one.
ListasDeDocumentos ==
    {<<>>,
     <<<<" ", "R", "G", " ">>, <<" ">>>>,
     <<<<>>, <<" ", " ">>>>,
     <<<<"C", "P", "F">>, <<>>, <<"R", " ", "G", " ">>, <<" ", "C", "P", "F">>>>,
     <<<<"R", "G">>, <<"C", "P", "F">>>>}

ChecklistPosts ==
    {[ProtocoloPost(t, "2026-11-05", <<>>, "", <<>>) EXCEPT !.documento_item = d] :
        t \in 1..2, d \in ListasDeDocumentos}

\* The document checklist: first access, one act type, and the two protocol
\* views with forms that differ in their documento_item[] list.
NextChecklist ==
    \/ \E m \in Methods, post \in SetupPosts : setup_system(m, post)
    \/ \E rq \in Requests(TipoAtoPosts) : tipo_ato_create(rq[1], rq[2], rq[3])
    \/ \E rq \in Requests(ChecklistPosts) :
            protocolo_certidao_create(rq[1], rq[2], rq[3])
    \/ \E rq \in Requests(ChecklistPosts),
          pk \in DOMAIN protocolos \cup {NextPk(protocolos)} :
            protocolo_certidao_update(rq[1], pk, rq[2], rq[3])

SpecChecklist == Init /\ [][NextChecklist]_vars

\* Office settings: first access, and settings_view requests of which up to
\* MaxPedidos are in flight at the same time.
NextTabelionato ==
    \/ \E m \in Methods, post \in SetupPosts : setup_system(m, post)
    \/ \E rq \in Requests(TabelionatoPosts), slot \in 1..MaxPedidos :
            settings_view(rq[1], rq[2], rq[3], slot)
    \/ \E slot \in 1..MaxPedidos : settings_view_salvar(slot)

SpecTabelionato == Init /\ [][NextTabelionato]_vars

\* Office settings with the two statements of Tabelionato.save interleaved.
NextTabelionatoConcorrente ==
    \/ \E m \in Methods, post \in SetupPosts : setup_system(m, post)
    \/ \E rq \in Requests(TabelionatoPosts), slot \in 1..MaxPedidos :
            settings_view(rq[1], rq[2], rq[3], slot)
    \/ \E slot \in 1..MaxPedidos : settings_view_exists(slot)
    \/ \E slot \in 1..MaxPedidos : settings_view_super_save(slot)

SpecTabelionatoConcorrente == Init /\ [][NextTabelionatoConcorrente]_vars

\* Protocol forms without person rows, naming each user as responsible.
ProtocoloPostsDeUsuarios ==
    {[ProtocoloPost(1, "2026-11-05", <<>>, "", <<>>) EXCEPT !.responsavel = r] :
        r \in 1..MaxUsuarios}

\* User administration, with the protocols that refer to users.
NextUsuarios ==
    \/ \E m \in Methods, post \in SetupPosts : setup_system(m, post)
    \/ \E rq \in Requests(UserPosts) : user_list(rq[1], rq[2])
    \/ \E rq \in Requests(UserPosts) : user_create(rq[1], rq[2], rq[3])
    \/ \E rq \in Requests(UserPosts), pk \in DOMAIN users \cup {NextPk(users)} :
            user_update(rq[1], pk, rq[2], rq[3])
    \/ \E rq \in Requests(UserPosts), pk \in DOMAIN users \cup {NextPk(users)} :
            user_delete(rq[1], pk, rq[2])
    \/ \E rq \in Requests(TipoAtoPosts) : tipo_ato_create(rq[1], rq[2], rq[3])
    \/ \E rq \in Requests(ProtocoloPostsDeUsuarios) :
            protocolo_certidao_create(rq[1], rq[2], rq[3])
    \/ \E rq \in Requests(ProtocoloPostsDeUsuarios),
          pk \in DOMAIN protocolos \cup {NextPk(protocolos)} :
            protocolo_certidao_update(rq[1], pk, rq[2], rq[3])

SpecUsuarios == Init /\ [][NextUsuarios]_vars

\* Submissions of the gated operations: users that are not Master, one
\* office and one act type.
UserPostsDoGate ==
    { UserPost("ana", ESCREVENTE, TRUE, SENHA, SENHA),
      UserPost("ana", ADMINISTRATIVO, TRUE, <<>>, <<>>) }

TabelionatoPostsDoGate == {TabelionatoPost(TRUE, DENOMINACAO_1, EMAIL, <<>>)}

\* Every operation behind master_required: user administration, office
\* settings and act types.
NextGate ==
    \/ \E m \in Methods, post \in SetupPosts : setup_system(m, post)
    \/ \E rq \in Requests(UserPostsDoGate) : user_list(rq[1], rq[2])
    \/ \E rq \in Requests(UserPostsDoGate) : user_create(rq[1], rq[2], rq[3])
    \/ \E rq \in Requests(UserPostsDoGate), pk \in DOMAIN users :
            user_update(rq[1], pk, rq[2], rq[3])
    \/ \E rq \in Requests(UserPostsDoGate), pk \in DOMAIN users :
            user_delete(rq[1], pk, rq[2])
    \/ \E rq \in Requests(TabelionatoPostsDoGate), slot \in 1..MaxPedidos :
            settings_view(rq[1], rq[2], rq[3], slot)
    \/ \E slot \in 1..MaxPedidos : settings_view_salvar(slot)
    \/ \E rq \in Requests(TipoAtoPosts) : tipo_ato_create(rq[1], rq[2], rq[3])
    \/ \E rq \in Requests(TipoAtoPosts), pk \in DOMAIN tipos_ato :
            tipo_ato_update(rq[1], pk, rq[2], rq[3])
    \/ \E rq \in Requests(TipoAtoPosts), pk \in DOMAIN tipos_ato :
            tipo_ato_delete(rq[1], pk, rq[2])
    \/ \E rq \in Requests(TipoAtoPosts), pk \in DOMAIN tipos_ato :
            tipo_ato_toggle(rq[1], pk, rq[2])

SpecGate == Init /\ [][NextGate]_vars

\* A Protocolo row stored on an earlier day by the first user, with a
\* number and a status of its own.
ProtocoloAnterior(numero, token, tipo, status) ==
    [NovoProtocolo(token) EXCEPT
        !.numero_protocolo = numero, !.tipo = tipo, !.status = status,
        !.tipo_ato = 1, !.criado_por = 1, !.responsavel = 1,
        !.data_criacao = Ontem]

\* An office in use: the Master of the first access, one act type, and two
\* protocols stored on an earlier day, a notarial act (the default type of
\* the model) and a concluded certificate.
InitEmUso ==
    /\ users = <<SetupMasterForm_save(
                    CHOOSE p \in SetupPosts : SetupMasterForm_is_valid(p))>>
    /\ tipos_ato = <<TipoAtoForm_save(CHOOSE p \in TipoAtoPosts : p.nome # "")>>
    /\ tabelionatos = <<>>
    /\ clientes = <<>>
    /\ protocolos = <<ProtocoloAnterior("2026/0001", 1, ATO_NOTARIAL, EM_ANDAMENTO),
                      ProtocoloAnterior("2026/0002", 2, CERTIDAO, CONCLUIDO)>>
    /\ pedidos = <<>>
    /\ resp = Resp("", "", "", 0, <<>>)

\* Forms that validate or not, with and without person rows, one of them
\* with a row that the reconciler rejects.
AtualizacaoPosts ==
    ProtocoloPostsDeUsuarios
    \cup {ProtocoloPost(1, "amanha", <<L_CPF_ANA>>, "", <<>>),
          ProtocoloPost(1, "", <<L_CPF_ANA>>, "on", <<L_CNPJ_BIA>>),
          ProtocoloPost(1, "", <<L_CPF_EMAIL_RUIM>>, "", <<>>)}

\* Updates of stored protocols by their creator and by other users.
NextAtualizacao ==
    \/ \E rq \in Requests(UserPostsDoGate) : user_create(rq[1], rq[2], rq[3])
    \/ \E rq \in Requests(AtualizacaoPosts) :
            protocolo_certidao_create(rq[1], rq[2], rq[3])
    \/ \E rq \in Requests(AtualizacaoPosts),
          pk \in DOMAIN protocolos \cup {NextPk(protocolos)} :
            protocolo_certidao_update(rq[1], pk, rq[2], rq[3])

SpecAtualizacao == InitEmUso /\ [][NextAtualizacao]_vars

-----------------------------------------------------------------------------
(* Properties of the person reconciler and the client registry              *)

\* The reconciler calls of the last request, and their steps.
Calls == {resp.calls[i] : i \in 1..Len(resp.calls)}

Steps(call) == {call.trace[i] : i \in 1..Len(call.trace)}

\* The last request was a direct reconciler call of one row.
UmaLinha(r) ==
    /\ r.op = "_processar_pessoas_do_post"
    /\ Len(r.calls[1].lists.documentos) = 1

\* ... whose row has a name and a document of 11 or 14 digits, and which
\* repeats the call before it (same row, same role), which returned.
Repetida(r) ==
    /\ UmaLinha(r)
    /\ r.repetida
    /\ Truthy(strip(r.calls[1].lists.nomes[1]))
    /\ Truthy(r.calls[1].lists.documentos[1])
    /\ Len(SelectSeq(r.calls[1].lists.documentos[1], IsDigit)) \in {CPF_DIGITS, CNPJ_DIGITS}

DigitsOf(r) == SelectSeq(r.calls[1].lists.documentos[1], IsDigit)

\* The column and the value the reconciler keys the row of call r on.
CampoChave(r) ==
    IF r.calls[1].apenas_cpf \/ Len(DigitsOf(r)) = CPF_DIGITS THEN "cpf" ELSE "cnpj"

ValorChave(r) ==
    IF r.calls[1].apenas_cpf THEN SubSeq(DigitsOf(r), 1, CPF_DIGITS) ELSE DigitsOf(r)

DocumentoCoerente(c) ==
    /\ c.tipo_pessoa \in TipoPessoa
    /\ c.tipo_pessoa = FISICA => (Truthy(c.cpf) /\ ~Truthy(c.cnpj))
    /\ c.tipo_pessoa = JURIDICA => (Truthy(c.cnpj) /\ ~Truthy(c.cpf))

\* A request that was refused by validation: a form rendered again with
\* its errors, or a ValidationError raised by Cliente.save.
Recusado(r) == r.outcome = "render" \/ r.exc = "ValidationError"

C7_SemDocumentoCriaCliente ==
    \A call \in Calls : \A st \in Steps(call) :
        (Truthy(st.nome) /\ ~Truthy(st.doc_limpo)) =>
            /\ st.kind = "ok"
            /\ st.created
            /\ st.pk \in Range(call.pessoas)
            /\ ~Truthy(st.depois.cpf) /\ ~Truthy(st.depois.cnpj)

\* The optional field f of a matched Cliente after a row that submitted v.
CampoMantido(st, f, v) ==
    st.depois[f] = IF Truthy(v) THEN v ELSE st.antes[f]

\* C8: a row that matches a stored Cliente overwrites its name and its
\* classification, overwrites phone, e-mail and address only where the row
\* gives them non-blank, and leaves the documents as stored.
C8_BrancoNaoSobrescreve ==
    \A call \in Calls : \A st \in Steps(call) :
        (st.kind = "ok" /\ ~st.created) =>
            /\ CampoMantido(st, "telefone", st.telefone)
            /\ CampoMantido(st, "email", st.email)
            /\ CampoMantido(st, "endereco", st.endereco)
            /\ st.depois.nome = st.nome
            /\ st.depois.tipo_pessoa =
                 (IF call.apenas_cpf \/ Len(st.doc_limpo) # CNPJ_DIGITS
                  THEN FISICA ELSE JURIDICA)
            /\ st.depois.cpf = st.antes.cpf
            /\ st.depois.cnpj = st.antes.cnpj

\* Witness of C8: a row with blank phone, e-mail and address matched a
\* Cliente that has all three stored, and renamed it.
C8_Witness ==
    \E call \in Calls : \E st \in Steps(call) :
        /\ st.kind = "ok" /\ ~st.created
        /\ st.telefone = <<>> /\ st.email = <<>> /\ st.endereco = <<>>
        /\ Truthy(st.antes.telefone) /\ Truthy(st.antes.email)
        /\ Truthy(st.antes.endereco)
        /\ st.depois.telefone = st.antes.telefone
        /\ st.depois.nome # st.antes.nome

-----------------------------------------------------------------------------
(* Properties of the protocol views *)

ProtocoloOps == {"protocolo_certidao_create", "protocolo_certidao_update"}

\* The request r submitted the protocol form (authenticated POST, on an
\* existing certificate protocol when it is an update).
Submetido(r) ==
    /\ r.op \in ProtocoloOps
    /\ r.outcome \in {"redirect:protocolo_certidao_update", "error",
                      "render:form_errors"}

Atualizado(r) ==
    /\ r.op = "protocolo_certidao_update"
    /\ r.outcome = "redirect:protocolo_certidao_update"

\* C1: a protocol create or update request in which a step after form
\* validation raises leaves the Protocolo table (rows and their client and
\* lawyer sets) and the Cliente table exactly as they were before it.
C1_FalhaNaoDeixaNada ==
    [][(Submetido(resp') /\ resp'.exc # "")
        => /\ ProtocoloCertidaoForm_is_valid(resp'.post)
           /\ protocolos' = protocolos
           /\ clientes' = clientes]_vars

\* Witness of C1: an update failed in its lawyer rows after its client rows
\* had created a Cliente and replaced the client set; the Cliente is not
\* stored and the client set is the one before the request.
C1_Witness ==
    /\ resp.op = "protocolo_certidao_update"
    /\ resp.exc # ""
    /\ Len(resp.calls) = 2
    /\ \E st \in Steps(resp.calls[1]) :
            st.kind = "ok" /\ st.created /\ st.pk \notin DOMAIN clientes
    /\ Range(resp.calls[1].pessoas) # resp.antes.clientes
    /\ protocolos[resp.pk] = resp.antes

\* C2: when the protocol form of a create or update submission does not
\* validate, the reconciler is not called and the Protocolo and Cliente
\* tables (associations included) are as before the request.
C2_FormInvalidoNaoProcessa ==
    [][(Submetido(resp') /\ ~ProtocoloCertidaoForm_is_valid(resp'.post))
        => /\ resp'.outcome = "render:form_errors"
           /\ resp'.calls = <<>>
           /\ protocolos' = protocolos
           /\ clientes' = clientes]_vars

\* Witness of C2: an update whose date is malformed and which submitted
\* client and lawyer rows was rendered again without a reconciler call.
C2_Witness ==
    /\ resp.op = "protocolo_certidao_update"
    /\ resp.outcome = "render:form_errors"
    /\ resp.post.data_agendamento \notin DatasValidas \cup {""}
    /\ resp.post.clientes # <<>>
    /\ resp.post.tem_advogado = "on" /\ resp.post.advogados # <<>>
    /\ resp.calls = <<>>

Documentos(c) == {d \in {c.cpf, c.cnpj} : Truthy(d)}

\* C4: after any sequence of protocol submissions no two stored Clientes
\* carry the same document (as cpf or as cnpj), and two rows of one
\* reconciler call with the same normalized document resolve to the same
\* Cliente.
C4_UmClientePorDocumento ==
    /\ \A a, b \in DOMAIN clientes :
            a # b => Documentos(clientes[a]) \cap Documentos(clientes[b]) = {}
    /\ \A call \in Calls : \A i, j \in 1..Len(call.trace) :
            (/\ call.trace[i].kind = "ok" /\ call.trace[j].kind = "ok"
             /\ Truthy(call.trace[i].doc_limpo)
             /\ call.trace[i].doc_limpo = call.trace[j].doc_limpo)
            => call.trace[i].pk = call.trace[j].pk

\* Witness of C4: with two Clientes stored, a call whose first two rows
\* carry the same document under different names returned one Cliente for
\* both.
C4_Witness ==
    /\ Cardinality(DOMAIN clientes) = 2
    /\ \E call \in Calls :
        /\ Len(call.trace) >= 2
        /\ call.trace[1].kind = "ok" /\ call.trace[2].kind = "ok"
        /\ call.trace[1].doc_limpo = call.trace[2].doc_limpo
        /\ call.trace[1].nome # call.trace[2].nome
        /\ call.trace[1].pk = call.trace[2].pk

\* C9: after a successful update whose submission does not have
\* tem_advogado set, the protocol has no lawyer.
C9_SemAdvogadoLimpa ==
    (Atualizado(resp) /\ resp.post.tem_advogado # "on")
        => protocolos[resp.pk].advogados = {}

\* Witness of C9: the protocol had a lawyer, the update submitted lawyer
\* rows without the flag, and the lawyer set is empty.
C9_Witness ==
    /\ Atualizado(resp)
    /\ resp.post.tem_advogado # "on"
    /\ resp.post.advogados # <<>>
    /\ resp.antes.advogados # {}
    /\ protocolos[resp.pk].advogados = {}

\* C10: after a successful update the protocol's client set is exactly what
\* the reconciler returned for the submitted client rows, and with
\* tem_advogado set its lawyer set is exactly what the reconciler returned
\* for the submitted lawyer rows.
C10_SubstituiAssociacoes ==
    Atualizado(resp) =>
        /\ resp.calls[1].lists = Lists(resp.post.clientes)
        /\ ~resp.calls[1].apenas_cpf
        /\ protocolos[resp.pk].clientes = Range(resp.calls[1].pessoas)
        /\ resp.post.tem_advogado = "on" =>
            /\ resp.calls[2].lists = Lists(resp.post.advogados)
            /\ resp.calls[2].apenas_cpf
            /\ protocolos[resp.pk].advogados = Range(resp.calls[2].pessoas)

\* Witness of C10: an update with the flag set dropped a client and a
\* lawyer that were attached and were not resubmitted.
C10_Witness ==
    /\ Atualizado(resp)
    /\ resp.post.tem_advogado = "on"
    /\ resp.antes.clientes \ protocolos[resp.pk].clientes # {}
    /\ protocolos[resp.pk].clientes # {}
    /\ resp.antes.advogados \ protocolos[resp.pk].advogados # {}

-----------------------------------------------------------------------------
(* Properties of the office settings *)

\* The request r saved a form bound to a new Tabelionato instance.
SalvouNovo(r) ==
    /\ r.op = "settings_view"
    /\ r.outcome \in {"redirect:settings_view", "error"}
    /\ r.pk = 0

\* C6: the save of a new Tabelionato while a row is stored raises a
\* validation error and leaves the table unchanged, and the table never
\* holds more than one row.
C6_TabelionatoUnico ==
    /\ [](Cardinality(DOMAIN tabelionatos) <= 1)
    /\ [][(SalvouNovo(resp') /\ DOMAIN tabelionatos # {})
            => /\ resp'.exc = "ValidationError"
               /\ tabelionatos' = tabelionatos]_vars

\* Witness of C6: a request that had read no row saved after another one
\* had stored the row, and was refused.
C6_Witness ==
    /\ SalvouNovo(resp)
    /\ resp.exc = "ValidationError"
    /\ Cardinality(DOMAIN tabelionatos) = 1
    /\ \E k \in DOMAIN tabelionatos :
            tabelionatos[k].denominacao # strip(resp.post.denominacao)

-----------------------------------------------------------------------------
(* Properties of protocol creation *)

Criado(r) ==
    /\ r.op = "protocolo_certidao_create"
    /\ r.outcome = "redirect:protocolo_certidao_update"

\* C11 as claimed: after a successful create the protocol is a certificate
\* created by the acting user, and its responsible user is the one selected
\* in the form whenever that is a user other than the acting one.
C11_ResponsavelDoFormulario ==
    Criado(resp) =>
        /\ protocolos[resp.pk].tipo = CERTIDAO
        /\ protocolos[resp.pk].criado_por = resp.user
        /\ resp.post.responsavel # resp.user =>
                protocolos[resp.pk].responsavel = resp.post.responsavel

\* C12 as claimed: a create whose form validates and whose person rows are
\* accepted succeeds, the stored protocol has a number, and the numbers of
\* the stored protocols are pairwise distinct.
C12_NumeroAtribuido ==
    [][(/\ Submetido(resp')
        /\ resp'.op = "protocolo_certidao_create"
        /\ ProtocoloCertidaoForm_is_valid(resp'.post)
        /\ \A i \in 1..Len(resp'.calls) : resp'.calls[i].exc = "")
       => /\ Criado(resp')
          /\ protocolos'[resp'.pk].numero_protocolo # ""
          /\ \A a, b \in DOMAIN protocolos' :
                a # b => protocolos'[a].numero_protocolo
                            # protocolos'[b].numero_protocolo]_vars

-----------------------------------------------------------------------------
(* Properties of the access gate and of user administration *)

GateOps ==
    {"user_list", "user_create", "user_update", "user_delete", "settings_view",
     "tipo_ato_create", "tipo_ato_update", "tipo_ato_delete", "tipo_ato_toggle"}

\* The user u is stored, active and not a Master.
NaoMaster(u) ==
    u \in DOMAIN users /\ users[u].is_active /\ users[u].role # MASTER

\* C13: a request to a user-administration, office-settings or act-type
\* operation by an authenticated user who is not a Master is redirected to
\* home and changes no User, Tabelionato or TipoAto row.
C13_SoMaster ==
    [][(resp'.op \in GateOps /\ NaoMaster(resp'.user))
        => /\ resp'.outcome = "redirect:home"
           /\ users' = users
           /\ tabelionatos' = tabelionatos
           /\ tipos_ato' = tipos_ato
           /\ pedidos' = pedidos]_vars

\* Witness of C13: with an office, an act type and two users stored, a user
\* who is not a Master asked to delete the act type and was sent home.
C13_Witness ==
    /\ resp.op = "tipo_ato_delete"
    /\ resp.outcome = "redirect:home"
    /\ NaoMaster(resp.user)
    /\ resp.pk \in DOMAIN tipos_ato
    /\ DOMAIN tabelionatos # {}
    /\ Cardinality(DOMAIN users) = 2

\* C14: setup_system changes the User table only when it is empty, and
\* then by adding one active Master; once a user is stored, every setup
\* request leaves the table as it is and redirects to login.
C14_SetupUmaVez ==
    [][resp'.op = "setup_system" =>
        IF DOMAIN users = {}
        THEN users' # users =>
                /\ resp'.outcome = "redirect:home"
                /\ DOMAIN users' = {resp'.pk}
                /\ users'[resp'.pk].role = MASTER
                /\ users'[resp'.pk].is_active
        ELSE users' = users /\ resp'.outcome = "redirect:login"]_vars

\* Witness of C14: the only Master was demoted, so no Master is stored, and
\* a setup request was still sent to login.
C14_Witness ==
    /\ resp.op = "setup_system"
    /\ resp.outcome = "redirect:login"
    /\ DOMAIN users # {}
    /\ \A k \in DOMAIN users : users[k].role # MASTER

\* C15: a user_delete request whose target is the acting user leaves the
\* User table unchanged, whatever the method.
C15_NaoExcluiASiMesmo ==
    [][(resp'.op = "user_delete" /\ resp'.pk = resp'.user) => users' = users]_vars

\* Witness of C15: a Master posted the delete of their own account, with
\* another user stored, and is still stored.
C15_Witness ==
    /\ resp.op = "user_delete"
    /\ resp.method = "POST"
    /\ resp.pk = resp.user
    /\ resp.outcome = "redirect:user_list"
    /\ is_master(resp.user)
    /\ Cardinality(DOMAIN users) = 2

\* The request r is a user_delete that reached user_obj.delete().
Excluindo(r) == r.op = "user_delete" /\ (r.deleted \/ r.exc # "")

\* C20: the creator of every stored Protocolo is a stored user; user_delete
\* never removes a Protocolo; the delete of a user who created a stored
\* Protocolo is refused and changes nothing; the delete of any other user
\* removes the user and leaves each Protocolo as it was, except that the
\* responsible user is none where it was the deleted user.
C20_CriadorProtegido ==
    /\ [](\A k \in DOMAIN protocolos : protocolos[k].criado_por \in DOMAIN users)
    /\ [][resp'.op = "user_delete" =>
            /\ DOMAIN protocolos' = DOMAIN protocolos
            /\ Excluindo(resp') =>
                IF \E k \in DOMAIN protocolos : protocolos[k].criado_por = resp'.pk
                THEN /\ ~resp'.deleted
                     /\ users' = users
                     /\ protocolos' = protocolos
                ELSE /\ resp'.deleted
                     /\ DOMAIN users' = DOMAIN users \ {resp'.pk}
                     /\ \A k \in DOMAIN protocolos :
                            protocolos'[k] =
                                [protocolos[k] EXCEPT !.responsavel =
                                    IF @ = resp'.pk THEN 0 ELSE @]]_vars

\* Witness of C20: the responsible user of a Protocolo was deleted; the
\* Protocolo is stored with its creator and without responsible user.
C20_Witness ==
    /\ resp.op = "user_delete"
    /\ resp.deleted
    /\ \E k \in DOMAIN protocolos :
            /\ protocolos[k].responsavel = 0
            /\ protocolos[k].criado_por \in DOMAIN users

-----------------------------------------------------------------------------
(* Properties of the client lookup endpoint *)

\* The stored Cliente c has the digits d as its cpf or its cnpj.
TemDocumento(c, d) == d # <<>> /\ (c.cpf = d \/ c.cnpj = d)

NoneAsEmpty(x) == IF x = Null THEN <<>> ELSE x

\* C16: a lookup answered with JSON says found exactly when the digits of
\* the query are not empty and are the cpf or cnpj of a stored Cliente, and
\* then carries that Cliente's id, name, classification, phone, email and
\* address; otherwise found is false, the id is none and every text field
\* is empty.  No lookup request changes a table.
C16_BuscaCliente ==
    [][resp'.op = "api_buscar_cliente" =>
        /\ UNCHANGED <<users, tipos_ato, tabelionatos, clientes, protocolos, pedidos>>
        /\ resp'.outcome = "json" =>
            /\ resp'.json.found <=>
                    \E k \in DOMAIN clientes :
                        TemDocumento(clientes[k], SelectSeq(resp'.documento, IsDigit))
            /\ resp'.json.found =>
                    /\ resp'.json.id \in DOMAIN clientes
                    /\ TemDocumento(clientes[resp'.json.id],
                                    SelectSeq(resp'.documento, IsDigit))
                    /\ resp'.json.nome = clientes[resp'.json.id].nome
                    /\ resp'.json.tipo_pessoa = clientes[resp'.json.id].tipo_pessoa
                    /\ resp'.json.telefone = NoneAsEmpty(clientes[resp'.json.id].telefone)
                    /\ resp'.json.email = NoneAsEmpty(clientes[resp'.json.id].email)
                    /\ resp'.json.endereco = NoneAsEmpty(clientes[resp'.json.id].endereco)
            /\ ~resp'.json.found =>
                    /\ resp'.json.id = 0
                    /\ resp'.json.nome = <<>>
                    /\ resp'.json.tipo_pessoa = ""
                    /\ resp'.json.telefone = <<>>
                    /\ resp'.json.email = <<>>
                    /\ resp'.json.endereco = <<>>]_vars

\* Witness of C16: a punctuated query padded with blanks found the stored
\* company by its cnpj.
C16_Witness ==
    /\ resp.op = "api_buscar_cliente"
    /\ resp.outcome = "json"
    /\ resp.json.found
    /\ resp.json.id \in DOMAIN clientes
    /\ clientes[resp.json.id].cnpj = SelectSeq(resp.documento, IsDigit)
    /\ resp.documento # SelectSeq(resp.documento, IsDigit)

-----------------------------------------------------------------------------
(* Properties of the text functions *)

NumDigitos(s) == Cardinality({i \in 1..Len(s) : s[i] \in Digits})

\* r is the digits of s with the separators seps at the positions pos.
Agrupado(r, s, pos, seps) ==
    /\ Len(r) = NumDigitos(s) + Len(pos)
    /\ \A i \in 1..Len(pos) : r[pos[i]] = seps[i]
    /\ SelectSeq(r, IsDigit) = SelectSeq(s, IsDigit)

\* C18: format_cpf of a value with exactly 11 digits is ddd.ddd.ddd-dd and
\* format_cnpj of a value with exactly 14 digits is dd.ddd.ddd/dddd-dd, on
\* the digits of the value in order; a non-empty value with another number
\* of digits is returned as it is.
C18_Formatos ==
    /\ resp.op = "format_cpf" /\ resp.value # Null /\ resp.value # <<>> =>
            IF NumDigitos(resp.value) = 11
            THEN Agrupado(resp.retorno, resp.value, <<4, 8, 12>>, <<".", ".", "-">>)
            ELSE resp.retorno = resp.value
    /\ resp.op = "format_cnpj" /\ resp.value # Null /\ resp.value # <<>> =>
            IF NumDigitos(resp.value) = 14
            THEN Agrupado(resp.retorno, resp.value, <<3, 7, 11, 16>>, <<".", ".", "/", "-">>)
            ELSE resp.retorno = resp.value

\* Witness of C18: a punctuated value of 14 digits was regrouped by
\* format_cnpj.
C18_Witness ==
    /\ resp.op = "format_cnpj"
    /\ NumDigitos(resp.value) = 14
    /\ Len(resp.value) > 14
    /\ resp.retorno # resp.value
    /\ Len(resp.retorno) = 18

NormalizerOps == {"_limpar_documento", "ClienteForm._limpar_documento"}

-----------------------------------------------------------------------------
(* Properties of concurrent submissions *)

\* The documents a Cliente carries.
DocumentosDe(c) == {c.cpf, c.cnpj} \ {Null}

\* C17: with the unique indexes on cpf and cnpj, whatever the interleaving
\* of the submissions, no two stored Clientes carry the same document.
C17_SemDuplicados ==
    \A k1, k2 \in DOMAIN clientes :
        k1 # k2 => DocumentosDe(clientes[k1]) \cap DocumentosDe(clientes[k2]) = {}

\* Witness of C17: a submission that found no Cliente, lost the race to a
\* concurrent one with the same document, caught the IntegrityError of its
\* INSERT and committed its values on the other's row.
C17_Witness ==
    /\ resp.op = "protocolo_certidao"
    /\ resp.outcome = "commit"
    /\ resp.post.integrity_error
    /\ Lookup(clientes, resp.post.campo, resp.post.doc) = {resp.pk}
    /\ clientes[resp.pk].nome = resp.post.nome

-----------------------------------------------------------------------------
(* Properties of concurrent saves of the office settings *)

\* C21: whatever the interleaving of the settings_view saves that started
\* with no Tabelionato stored, at most one Tabelionato is stored.
C21_UmTabelionato == Cardinality(DOMAIN tabelionatos) <= 1

-----------------------------------------------------------------------------
(* Properties of the accounts *)

\* C22: once setup has stored the first user, an active account with role
\* Master exists in every state reached through user_create, user_update
\* and user_delete.
C22_SempreUmMaster ==
    DOMAIN users # {} =>
        \E k \in DOMAIN users : users[k].role = MASTER /\ users[k].is_active

\* C27: every stored user, saved by SetupMasterForm or by UserForm, is a
\* superuser exactly when its role is Master.
C27_SuperuserSeMaster ==
    \A k \in DOMAIN users : users[k].is_superuser <=> users[k].role = MASTER

\* Witness of C27: the account created by setup as Master was edited to
\* another role while a created user was made Master; the flags followed.
C27_Witness ==
    /\ resp.op = "user_update"
    /\ resp.outcome = "redirect:user_list"
    /\ \E k \in DOMAIN users :
            /\ users[k].username = "master"
            /\ users[k].role # MASTER
            /\ ~users[k].is_superuser
    /\ \E k \in DOMAIN users :
            /\ users[k].username = "ana"
            /\ users[k].role = MASTER
            /\ users[k].is_superuser

-----------------------------------------------------------------------------
(* Properties of the classification of documents *)

\* The step st of a client call (not apenas_cpf) has a name and a document
\* with digits, but not 11 and not 14 of them.
ForaDoPadrao(call, st) ==
    /\ ~call.apenas_cpf
    /\ Truthy(st.nome)
    /\ Truthy(st.doc_limpo)
    /\ Len(st.doc_limpo) \notin {11, 14}

\* The step st stored an individual whose cpf is the whole of its digits.
PersistidoComoFisica(call, st) ==
    /\ st.kind = "ok"
    /\ st.pk \in DOMAIN clientes
    /\ clientes[st.pk].tipo_pessoa = FISICA
    /\ clientes[st.pk].cpf = st.doc_limpo
    /\ clientes[st.pk].cnpj = Null
    /\ st.pk \in Range(call.pessoas)

\* C23 as stated: a client row with a name and a document of any number of
\* digits other than 0, 11 and 14 is stored as an individual with the
\* digits as cpf.
C23_ForaDoPadraoComoAfirmado ==
    \A call \in Calls : \A st \in Steps(call) :
        ForaDoPadrao(call, st) => PersistidoComoFisica(call, st)

\* C23: such a row is stored as an individual with the digits as cpf when
\* it has at most 14 digits; with more the save raises ValidationError and
\* stores nothing.
C23_ForaDoPadrao ==
    [][\A call \in {resp'.calls[i] : i \in 1..Len(resp'.calls)} :
        \A st \in Steps(call) :
            ForaDoPadrao(call, st) =>
                IF Len(st.doc_limpo) <= 14
                THEN /\ st.kind = "ok"
                     /\ st.pk \in DOMAIN clientes'
                     /\ clientes'[st.pk].tipo_pessoa = FISICA
                     /\ clientes'[st.pk].cpf = st.doc_limpo
                     /\ clientes'[st.pk].cnpj = Null
                     /\ st.pk \in Range(call.pessoas)
                ELSE /\ st.kind = "raise"
                     /\ st.exc = "ValidationError"
                     /\ clientes' = clientes]_vars

\* Witness of C23: a row of 13 digits was stored as an individual beside
\* another Cliente.
C23_Witness ==
    /\ Cardinality(DOMAIN clientes) = 2
    /\ \E call \in Calls : \E st \in Steps(call) :
            /\ ForaDoPadrao(call, st)
            /\ Len(st.doc_limpo) = 13
            /\ st.created
            /\ PersistidoComoFisica(call, st)

\* C24: a reconciler step changes a stored Cliente only when the cpf or the
\* cnpj stored for it is the whole normalised document of the row, for
\* client rows and for lawyer rows.
C24_SoDocumentoInteiro ==
    \A call \in Calls : \A st \in Steps(call) :
        (st.kind = "ok" /\ ~st.created /\ st.depois # st.antes) =>
            (st.antes.cpf = st.doc_limpo \/ st.antes.cnpj = st.doc_limpo)

-----------------------------------------------------------------------------
(* Properties of the document checklist *)

RECURSIVE Aparado(_)
\* The text s without its leading and trailing whitespace.
Aparado(s) ==
    IF s = <<>> THEN <<>>
    ELSE IF Head(s) \in Whitespace THEN Aparado(Tail(s))
    ELSE IF s[Len(s)] \in Whitespace THEN Aparado(SubSeq(s, 1, Len(s) - 1))
    ELSE s

RECURSIVE ListaEsperada(_)
\* The entries of docs trimmed, without those that are empty after
\* trimming, in the order of docs and with repetitions.
ListaEsperada(docs) ==
    IF docs = <<>> THEN <<>>
    ELSE IF Aparado(Head(docs)) = <<>> THEN ListaEsperada(Tail(docs))
    ELSE <<Aparado(Head(docs))>> \o ListaEsperada(Tail(docs))

\* C25: after a successful create or update the stored document checklist
\* of the protocol is the submitted documento_item[] list with each entry
\* trimmed and the entries that are empty after trimming removed, in
\* submission order and with duplicates kept.
C25_ListaDeDocumentos ==
    (Criado(resp) \/ Atualizado(resp)) =>
        /\ resp.pk \in DOMAIN protocolos
        /\ protocolos[resp.pk].lista_documentos =
                ListaEsperada(resp.post.documento_item)

\* Witness of C25: an update replaced a stored checklist by one that has a
\* repeated entry and fewer entries than were submitted.
C25_Witness ==
    /\ Atualizado(resp)
    /\ resp.antes.lista_documentos # <<>>
    /\ resp.antes.lista_documentos # protocolos[resp.pk].lista_documentos
    /\ Len(protocolos[resp.pk].lista_documentos) = 3
    /\ Len(resp.post.documento_item) = 4
    /\ protocolos[resp.pk].lista_documentos[1] =
            protocolos[resp.pk].lista_documentos[3]
    /\ protocolos[resp.pk].lista_documentos[1] #
            protocolos[resp.pk].lista_documentos[2]

-----------------------------------------------------------------------------
(* Properties of the protocol update *)

\* The fields of a protocol that no update may change.
CamposProtegidos(p) ==
    <<p.criado_por, p.numero_protocolo, p.hash_acesso_publico, p.status,
      p.data_criacao>>

\* C26: a protocolo_certidao_update request, whatever its submission and
\* its outcome, leaves the creator, the number, the public-access token,
\* the status and the creation date of every stored protocol as they were,
\* and leaves every protocol whose type is notarial act wholly as it was.
C26_CamposProtegidos ==
    [][resp'.op = "protocolo_certidao_update" =>
        \A k \in DOMAIN protocolos :
            /\ k \in DOMAIN protocolos'
            /\ CamposProtegidos(protocolos'[k]) = CamposProtegidos(protocolos[k])
            /\ protocolos[k].tipo = ATO_NOTARIAL =>
                    protocolos'[k] = protocolos[k]]_vars

\* Witness of C26: beside a stored notarial act, a user other than its
\* creator updated a certificate stored on an earlier day; the update
\* changed the protocol and its protected fields are as before.
C26_Witness ==
    /\ Atualizado(resp)
    /\ resp.user # resp.antes.criado_por
    /\ resp.antes.data_criacao = Ontem
    /\ resp.antes.status = CONCLUIDO
    /\ protocolos[resp.pk] # resp.antes
    /\ CamposProtegidos(protocolos[resp.pk]) = CamposProtegidos(resp.antes)
    /\ \E k \in DOMAIN protocolos : protocolos[k].tipo = ATO_NOTARIAL

=============================================================================
